---------------------------- MODULE Spec2Model ----------------------------
(***************************************************************************)
(* Model of the auth service (crates/auth_core) running against the       *)
(* storage backend through the service contracts (crates/admin_core),     *)
(* together with the admin handlers that create and delete users.         *)
(*                                                                         *)
(* Every handler is split at its awaits on the storage backend: one       *)
(* action per contract call, carrying the synchronous code that follows   *)
(* the call up to the next one.  Requests run concurrently in the slots   *)
(* of Reqs.  The variable resp holds the response emitted by the step     *)
(* that led to the current state (NoResp when the step emitted none), so  *)
(* a state predicate over resp and the stores speaks about the moment a   *)
(* response is produced.                                                   *)
(*                                                                         *)
(* Time is counted in seconds.  Row timestamps created_at / updated_at    *)
(* are not read by any handler and are left out of the rows.              *)
(*                                                                         *)
(* Two further parts follow, each a specification of its own over the     *)
(* same variables: the gateway (crates/gateway_core) serving one request  *)
(* from its arrival to its response (SpecGateway), and the admin API on   *)
(* users and organisations called by several tenants (SpecTenants).       *)
(***************************************************************************)
EXTENDS Integers, FiniteSets, Sequences, TLC

VARIABLES
    users,        \* table users (admin_core/src/db.rs:50-59)
    tokens,       \* table refresh_tokens (admin_core/src/db.rs:112-119)
    now,          \* wall clock, seconds
    config,       \* AuthConfig: the default-admin pair
    req,          \* the requests in flight, one per slot
    resp,         \* the response emitted by the last step
    nextUserId,   \* source of Uuid::new_v4() for users
    nextSecret,   \* source of generate_refresh_token()
    gw,           \* the request the gateway is serving (gateway_core)
    orgs,         \* table organisations (admin_core/src/db.rs:34-40)
    areq,         \* the admin requests in flight, one per slot
    aresp         \* the response emitted by the last admin step

vars == <<users, tokens, now, config, req, resp, nextUserId, nextSecret,
          gw, orgs, areq, aresp>>

\* the state of the gateway and of the admin API
edge == <<gw, orgs, areq, aresp>>

---------------------------------------------------------------------------
(* Bounds of the model *)

MaxReqs == 2
MaxUsers == 1
MaxSecrets == 3
MaxTicks == 2
MaxCallers == 3
MaxAdminUsers == 2
MaxOrgs == 2
MaxRegistered == 2

(* Program constants *)

TokenTtlSeconds == 300
RefreshTokenDays == 7
DaySeconds == 86400
RefreshTokenSeconds == RefreshTokenDays * DaySeconds

(* One tick of the clock is the lifetime of a refresh token, so that a row
   is seen before, exactly at and after its expiry. *)
TickSeconds == RefreshTokenSeconds

Reqs == 1..MaxReqs
Emails == {"a@x.com", "admin@x.com"}
Passwords == {"pw1", "admin123"}
Names == {"A"}

---------------------------------------------------------------------------
(* Option<T> and Result<T, ContractError> *)

None == [some |-> FALSE]
Some(v) == [some |-> TRUE, val |-> v]

Ok(v) == [ok |-> TRUE, val |-> v]
Err(e) == [ok |-> FALSE, err |-> e]

\* Result::unwrap_or
unwrap_or(res, default) == IF res.ok THEN res.val ELSE default

\* Uuid::nil()
NilUuid == 0

---------------------------------------------------------------------------
(* Token module (auth_core/src/token.rs) *)

\* Argon2 hash: the PHC string determines the password; the salt is not
\* read by any handler.
hash_password(password) == [alg |-> "argon2", digest |-> password]

\* variant: the wrong part of the stored hash is compared
verify_password_raw(password, hash) == Ok(hash.alg = password)

verify_password(password, hash) == Ok(hash.digest = password)

\* hash of a refresh token, the storage key of its row
hash_refresh_token(token) == [sip |-> token]

generate_access_token(user, cfg, t) ==
    [sub    |-> user.id,
     iss    |-> cfg.issuer,
     exp    |-> t + cfg.token_ttl_seconds,
     iat    |-> t,
     email  |-> user.email,
     name   |-> user.name,
     role   |-> user.role,
     org_id |-> user.organisation_id]

---------------------------------------------------------------------------
(* Storage backend: the schema (admin_core/src/db.rs) *)

\* columns of table refresh_tokens
RefreshTokenColumns ==
    {"id", "user_id", "organisation_id", "token_hash", "expires_at", "created_at"}

\* columns the rotation statement assigns
UpdateSetColumns == {"token_hash", "expires_at", "updated_at"}

UserRow(id, organisation_id, email, name, password_hash, role) ==
    [id |-> id, organisation_id |-> organisation_id, email |-> email,
     name |-> name, password_hash |-> password_hash, role |-> role]

TokenRow(id, user_id, organisation_id, token_hash, expires_at) ==
    [id |-> id, user_id |-> user_id, organisation_id |-> organisation_id,
     token_hash |-> token_hash, expires_at |-> expires_at]

\* DbRefreshTokenInfo -> RefreshTokenInfo: the hash is not selected
RefreshTokenInfo(row) ==
    [id |-> row.id, user_id |-> row.user_id,
     organisation_id |-> row.organisation_id, expires_at |-> row.expires_at]

---------------------------------------------------------------------------
(* Service contracts, direct implementation (admin_core/src/contract_impl.rs).
   up: the backend answers the call; a call that is not answered returns
   ContractError::Internal (sqlx error) or ::Connection (remote peer).
   A writing operation yields its Result and the table after it. *)

count(up) ==
    IF up THEN Ok(Cardinality(users)) ELSE Err("Internal")

find_by_email(up, email) ==
    IF ~up THEN Err("Internal")
    ELSE IF \E u \in users : u.email = email
         THEN Ok(Some(CHOOSE u \in users : u.email = email))
         ELSE Ok(None)

find_by_id(up, id) ==
    IF ~up THEN Err("Internal")
    ELSE IF \E u \in users : u.id = id
         THEN Ok(Some(CHOOSE u \in users : u.id = id))
         ELSE Ok(None)

\* variant: the table accepts an email it already holds
user_create_any_email(up, id, email, name, password_hash, organisation_id, role) ==
    LET row == UserRow(id, organisation_id, email, name, Some(password_hash), role)
    IN  IF ~up THEN [res |-> Err("Internal"), tbl |-> users]
        ELSE [res |-> Ok(row), tbl |-> users \cup {row}]

\* INSERT INTO users: email is UNIQUE; "unique" in the error text maps to
\* AlreadyExists
user_create(up, id, email, name, password_hash, organisation_id, role) ==
    LET row == UserRow(id, organisation_id, email, name, Some(password_hash), role)
    IN  IF ~up THEN [res |-> Err("Internal"), tbl |-> users]
        ELSE IF \E u \in users : u.email = email
             THEN [res |-> Err("AlreadyExists"), tbl |-> users]
             ELSE [res |-> Ok(row), tbl |-> users \cup {row}]

\* variant: the table accepts a hash it already holds
token_create_any_hash(up, id, user_id, organisation_id, token_hash, expires_at) ==
    LET row == TokenRow(id, user_id, organisation_id, token_hash, expires_at)
    IN  IF ~up \/ ~(\E u \in users : u.id = user_id)
        THEN [res |-> Err("Internal"), tbl |-> tokens]
        ELSE [res |-> Ok(id), tbl |-> tokens \cup {row}]

\* INSERT INTO refresh_tokens: user_id REFERENCES users(id), token_hash UNIQUE
token_create(up, id, user_id, organisation_id, token_hash, expires_at) ==
    LET row == TokenRow(id, user_id, organisation_id, token_hash, expires_at)
    IN  IF \/ ~up
           \/ ~(\E u \in users : u.id = user_id)
           \/ \E t \in tokens : t.token_hash = token_hash
        THEN [res |-> Err("Internal"), tbl |-> tokens]
        ELSE [res |-> Ok(id), tbl |-> tokens \cup {row}]

find_by_hash(up, token_hash) ==
    IF ~up THEN Err("Internal")
    ELSE IF \E t \in tokens : t.token_hash = token_hash
         THEN Ok(Some(RefreshTokenInfo(CHOOSE t \in tokens : t.token_hash = token_hash)))
         ELSE Ok(None)

\* UPDATE refresh_tokens SET token_hash, expires_at, updated_at WHERE id:
\* the statement is rejected when it names a column the table lacks
update(up, token_id, new_token_hash, new_expires_at) ==
    IF \/ ~up
       \/ ~(UpdateSetColumns \subseteq RefreshTokenColumns)
       \/ /\ \E t \in tokens : t.id = token_id
          /\ \E t \in tokens : t.id # token_id /\ t.token_hash = new_token_hash
    THEN [res |-> Err("Internal"), tbl |-> tokens]
    ELSE [res |-> Ok("unit"),
          tbl |-> {IF t.id = token_id
                   THEN [t EXCEPT !.token_hash = new_token_hash,
                                  !.expires_at = new_expires_at]
                   ELSE t : t \in tokens}]

\* variant: the statement matches no row
delete_by_hash_keeps(up, token_hash) ==
    IF ~up THEN [res |-> Err("Internal"), tbl |-> tokens]
    ELSE [res |-> Ok("unit"), tbl |-> tokens]

delete_by_hash(up, token_hash) ==
    IF ~up THEN [res |-> Err("Internal"), tbl |-> tokens]
    ELSE [res |-> Ok("unit"),
          tbl |-> {t \in tokens : t.token_hash # token_hash}]

delete(up, token_id) ==
    IF ~up THEN [res |-> Err("Internal"), tbl |-> tokens]
    ELSE [res |-> Ok("unit"), tbl |-> {t \in tokens : t.id # token_id}]

---------------------------------------------------------------------------
(* Requests, slots and responses *)

LoginRequest(email, password) ==
    [kind |-> "login", email |-> email, password |-> password,
     name |-> "", refresh_token |-> 0]

RefreshRequest(kind, refresh_token) ==
    [kind |-> kind, email |-> "", password |-> "", name |-> "",
     refresh_token |-> refresh_token]

RegisterRequest(email, name, password) ==
    [kind |-> "register", email |-> email, password |-> password,
     name |-> name, refresh_token |-> 0]

NoRequest == [kind |-> "none", email |-> "", password |-> "", name |-> "",
              refresh_token |-> 0]

\* a request suspended at an await: its payload and the locals that are live
Slot(pc, payload, user, token_info, access_token, refresh_token, expires_at) ==
    [pc |-> pc, payload |-> payload, user |-> user, token_info |-> token_info,
     access_token |-> access_token, refresh_token |-> refresh_token,
     expires_at |-> expires_at]

Idle == Slot("idle", NoRequest, None, None, None, None, 0)

\* AuthUserInfo::from(&user)
AuthUserInfo(user) == [id |-> user.id, email |-> user.email, name |-> user.name]

Response(payload, status, error, message, access_token, refresh_token, user) ==
    [payload |-> payload, status |-> status, error |-> error,
     message |-> message, access_token |-> access_token,
     refresh_token |-> refresh_token, user |-> user]

NoResp == Response(NoRequest, 0, "", "", None, None, None)

\* (status, Json(ErrorResponse { error, message }))
ErrorResponse(payload, status, error, message) ==
    Response(payload, status, error, message, None, None, None)

\* (status, Json(AuthResponse { access_token, refresh_token, .., user }))
AuthResponse(payload, status, access_token, refresh_token, user) ==
    Response(payload, status, "", "", Some(access_token), Some(refresh_token),
             Some(AuthUserInfo(user)))

\* StatusCode::NO_CONTENT
NoContent(payload) == Response(payload, 204, "", "", None, None, None)

---------------------------------------------------------------------------
(* AuthConfig (auth_core/src/config.rs) *)

AuthConfig(default_admin_email, default_admin_password) ==
    [issuer |-> "apisentinel", token_ttl_seconds |-> TokenTtlSeconds,
     default_admin_email |-> default_admin_email,
     default_admin_password |-> default_admin_password]

\* the service runs with a default admin configured
Configs == {AuthConfig(Some("admin@x.com"), Some("admin123"))}

---------------------------------------------------------------------------
(* The refresh tokens a client can present.  A token is 32 random bytes:
   a client knows the ones the service has sent in a response, not the
   ones a suspended request still holds.  0 stands for a string the
   service never generated. *)

Pending == {req[r].refresh_token.val : r \in {q \in Reqs : req[q].refresh_token.some}}

PresentedTokens == (0..(nextSecret - 1)) \ Pending

---------------------------------------------------------------------------
(* The gateway and the admin API at rest.  The auth service is modelled
   behind them: its steps leave this part of the state alone. *)

\* no request is being served by the gateway
NoGatewayRequest == [pc |-> "idle"]

\* the concurrent callers of the admin API
Callers == 1..MaxCallers

\* a slot of the admin API with no request in it
AdminIdle == [pc |-> "idle"]

\* no admin handler answered in the last step
NoAdminResp == [op |-> "none"]

---------------------------------------------------------------------------
Init ==
    /\ users = {}
    /\ tokens = {}
    /\ now = 0
    /\ config \in Configs
    /\ req = [r \in Reqs |-> Idle]
    /\ resp = NoResp
    /\ nextUserId = 1
    /\ nextSecret = 1
    /\ gw = NoGatewayRequest
    /\ orgs = {}
    /\ areq = [c \in Callers |-> AdminIdle]
    /\ aresp = NoAdminResp

---------------------------------------------------------------------------
(* POST /auth/login (auth_core/src/handlers.rs:32-137) *)

\* the virtual user of the default admin
DefaultAdminUser(default_email) ==
    UserRow(NilUuid, None, default_email, "Default Admin", None, "SUPER_ADMIN")

\* handlers.rs:39-62: no users exist, check the default admin credentials
default_admin(cfg, payload) ==
    IF cfg.default_admin_email.some /\ cfg.default_admin_password.some
    THEN IF /\ payload.email = cfg.default_admin_email.val
            /\ payload.password = cfg.default_admin_password.val
         THEN Some(DefaultAdminUser(cfg.default_admin_email.val))
         ELSE None
    ELSE None

\* variant: the user found is accepted without verification
verified_without_password(db_user, payload) == db_user

\* handlers.rs:72-85: verify the password of the user found
verified(db_user, payload) ==
    IF db_user.some
    THEN IF db_user.val.password_hash.some
         THEN LET v == verify_password(payload.password,
                                       db_user.val.password_hash.val)
              IN  IF v.ok /\ v.val THEN db_user ELSE None
         ELSE None
    ELSE None

LoginUnauthorized(payload) ==
    ErrorResponse(payload, 401, "unauthorized", "Invalid email or password")

\* handlers.rs:99-136 up to the call of token_service.create: the tokens
\* are generated; the refresh token of a real user is then stored, the
\* virtual admin is answered at once
LoginIssue(r, payload, user) ==
    /\ nextSecret <= MaxSecrets
    /\ nextSecret' = nextSecret + 1
    /\ LET access_token == generate_access_token(user, config, now)
           refresh_token == nextSecret
       IN  IF user.id # NilUuid
           THEN /\ req' = [req EXCEPT ![r] =
                        Slot("login_store", payload, Some(user), None,
                             Some(access_token), Some(refresh_token),
                             now + RefreshTokenSeconds)]
                /\ resp' = NoResp
           ELSE /\ req' = [req EXCEPT ![r] = Idle]
                /\ resp' = AuthResponse(payload, 200, access_token,
                                        refresh_token, user)

\* variant: the default admin is inserted into users when it logs in
LoginDefaultAdminPersisted(r, payload) ==
    LET user == default_admin(config, payload)
    IN  IF user.some
        THEN /\ users' = users \cup {user.val}
             /\ LoginIssue(r, payload, user.val)
        ELSE /\ users' = users
             /\ resp' = LoginUnauthorized(payload)
             /\ UNCHANGED <<req, nextSecret>>

\* handlers.rs:39-62: no users exist; the default admin is answered as a
\* virtual user, which is not stored
LoginDefaultAdmin(r, payload) ==
    /\ users' = users
    /\ LET user == default_admin(config, payload)
       IN  IF user.some
           THEN LoginIssue(r, payload, user.val)
           ELSE /\ resp' = LoginUnauthorized(payload)
                /\ UNCHANGED <<req, nextSecret>>

\* the request arrives; user_service.count() is answered
LoginCount(r, email, password, up) ==
    /\ req[r].pc = "idle"
    /\ LET payload == LoginRequest(email, password)
           user_count == unwrap_or(count(up), 0)
       IN  IF user_count = 0
           THEN LoginDefaultAdmin(r, payload)
           ELSE /\ req' = [req EXCEPT ![r] =
                        Slot("login_find", payload, None, None, None, None, 0)]
                /\ resp' = NoResp
                /\ UNCHANGED <<users, nextSecret>>
    /\ UNCHANGED <<tokens, now, config, nextUserId>>

\* user_service.find_by_email() is answered
LoginFind(r, up) ==
    /\ req[r].pc = "login_find"
    /\ LET payload == req[r].payload
           db_user == unwrap_or(find_by_email(up, payload.email), None)
           user == verified(db_user, payload)
       IN  IF user.some
           THEN LoginIssue(r, payload, user.val)
           ELSE /\ resp' = LoginUnauthorized(payload)
                /\ req' = [req EXCEPT ![r] = Idle]
                /\ UNCHANGED nextSecret
    /\ UNCHANGED <<users, tokens, now, config, nextUserId>>

\* token_service.create() is answered; its Result is dropped
LoginStore(r, up) ==
    /\ req[r].pc = "login_store"
    /\ LET s == req[r]
           created == token_create(up, s.refresh_token.val, s.user.val.id,
                          s.user.val.organisation_id,
                          hash_refresh_token(s.refresh_token.val), s.expires_at)
       IN  /\ tokens' = created.tbl
           /\ resp' = AuthResponse(s.payload, 200, s.access_token.val,
                                   s.refresh_token.val, s.user.val)
    /\ req' = [req EXCEPT ![r] = Idle]
    /\ UNCHANGED <<users, now, config, nextUserId, nextSecret>>

---------------------------------------------------------------------------
(* POST /auth/refresh (auth_core/src/handlers.rs:140-234) *)

\* variant: the comparison is reversed
expired_reversed(token_info, t) == token_info.expires_at > t

\* handlers.rs:165: token_info.expires_at < Utc::now()
expired(token_info, t) == token_info.expires_at < t

\* the request arrives; token_service.find_by_hash() is answered and the
\* expiry is checked
RefreshFind(r, refresh_token, up) ==
    /\ req[r].pc = "idle"
    /\ LET payload == RefreshRequest("refresh", refresh_token)
           token_hash == hash_refresh_token(refresh_token)
           result == unwrap_or(find_by_hash(up, token_hash), None)
       IN  IF ~result.some
           THEN /\ resp' = ErrorResponse(payload, 401, "invalid_token",
                                         "Invalid or expired refresh token")
                /\ req' = req
           ELSE /\ resp' = NoResp
                /\ req' = [req EXCEPT ![r] =
                        Slot(IF expired(result.val, now)
                             THEN "refresh_delete" ELSE "refresh_user",
                             payload, None, result, None, None, 0)]
    /\ UNCHANGED <<users, tokens, now, config, nextUserId, nextSecret>>

\* token_service.delete() of the expired row is answered; Result dropped
RefreshDelete(r, up) ==
    /\ req[r].pc = "refresh_delete"
    /\ tokens' = delete(up, req[r].token_info.val.id).tbl
    /\ resp' = ErrorResponse(req[r].payload, 401, "expired_token",
                             "Refresh token has expired")
    /\ req' = [req EXCEPT ![r] = Idle]
    /\ UNCHANGED <<users, now, config, nextUserId, nextSecret>>

\* user_service.find_by_id() is answered; the new tokens are generated
RefreshUser(r, up) ==
    /\ req[r].pc = "refresh_user"
    /\ LET s == req[r]
           user == unwrap_or(find_by_id(up, s.token_info.val.user_id), None)
       IN  IF ~user.some
           THEN /\ resp' = ErrorResponse(s.payload, 401, "user_not_found",
                                         "User not found")
                /\ req' = [req EXCEPT ![r] = Idle]
                /\ UNCHANGED nextSecret
           ELSE /\ nextSecret <= MaxSecrets
                /\ nextSecret' = nextSecret + 1
                /\ resp' = NoResp
                /\ req' = [req EXCEPT ![r] =
                        Slot("refresh_update", s.payload, user, s.token_info,
                             Some(generate_access_token(user.val, config, now)),
                             Some(nextSecret), now + RefreshTokenSeconds)]
    /\ UNCHANGED <<users, tokens, now, config, nextUserId>>

\* token_service.update() is answered; its Result is dropped
RefreshUpdate(r, up) ==
    /\ req[r].pc = "refresh_update"
    /\ LET s == req[r]
       IN  /\ tokens' = update(up, s.token_info.val.id,
                               hash_refresh_token(s.refresh_token.val),
                               s.expires_at).tbl
           /\ resp' = AuthResponse(s.payload, 200, s.access_token.val,
                                   s.refresh_token.val, s.user.val)
    /\ req' = [req EXCEPT ![r] = Idle]
    /\ UNCHANGED <<users, now, config, nextUserId, nextSecret>>

---------------------------------------------------------------------------
(* POST /auth/logout (auth_core/src/handlers.rs:283-290) *)

Logout(r, refresh_token, up) ==
    /\ req[r].pc = "idle"
    /\ tokens' = delete_by_hash(up, hash_refresh_token(refresh_token)).tbl
    /\ resp' = NoContent(RefreshRequest("logout", refresh_token))
    /\ UNCHANGED <<users, now, config, req, nextUserId, nextSecret>>

---------------------------------------------------------------------------
(* POST /auth/register (auth_core/src/handlers.rs:300-379) *)

\* variant: a failed registration is answered 409 Conflict
RegistrationFailedConflict(payload, err) ==
    ErrorResponse(payload, 409, "registration_failed",
                  IF err = "AlreadyExists" THEN "Email already registered"
                  ELSE "Failed to create user: " \o err)

\* handlers.rs:363-378: user_service.create() returned an error
RegistrationFailed(payload, err) ==
    ErrorResponse(payload, 400, "registration_failed",
                  IF err = "AlreadyExists" THEN "Email already registered"
                  ELSE "Failed to create user: " \o err)

\* the request arrives, the password is hashed; user_service.create() is
\* answered and on success the tokens are generated; limit bounds the ids
\* the model hands out
RegisterCreateWithin(limit, r, email, name, password, up) ==
    /\ req[r].pc = "idle"
    /\ LET payload == RegisterRequest(email, name, password)
           password_hash == hash_password(password)
           result == user_create(up, nextUserId, email, name, password_hash,
                                 None, "USER")
       IN  /\ users' = result.tbl
           /\ IF result.res.ok
              THEN /\ nextUserId <= limit
                   /\ nextUserId' = nextUserId + 1
                   /\ nextSecret <= MaxSecrets
                   /\ nextSecret' = nextSecret + 1
                   /\ resp' = NoResp
                   /\ req' = [req EXCEPT ![r] =
                         Slot("register_store", payload, Some(result.res.val),
                              None,
                              Some(generate_access_token(result.res.val,
                                                         config, now)),
                              Some(nextSecret), now + RefreshTokenSeconds)]
              ELSE /\ resp' = RegistrationFailed(payload, result.res.err)
                   /\ UNCHANGED <<req, nextSecret, nextUserId>>
    /\ UNCHANGED <<tokens, now, config>>

RegisterCreate(r, email, name, password, up) ==
    RegisterCreateWithin(MaxUsers, r, email, name, password, up)

\* token_service.create() is answered; its Result is dropped
RegisterStore(r, up) ==
    /\ req[r].pc = "register_store"
    /\ LET s == req[r]
       IN  /\ tokens' = token_create(up, s.refresh_token.val, s.user.val.id,
                             s.user.val.organisation_id,
                             hash_refresh_token(s.refresh_token.val),
                             s.expires_at).tbl
           /\ resp' = AuthResponse(s.payload, 201, s.access_token.val,
                                   s.refresh_token.val, s.user.val)
    /\ req' = [req EXCEPT ![r] = Idle]
    /\ UNCHANGED <<users, now, config, nextUserId, nextSecret>>

---------------------------------------------------------------------------
(* Admin handlers on users (admin_core/src/handlers.rs).  They act on the
   same tables; their responses are not part of resp. *)

Headers(x_user_role, x_organisation_id) ==
    [x_user_role |-> x_user_role, x_organisation_id |-> x_organisation_id]

get_org_id_from_headers(headers) == headers.x_organisation_id

get_role_from_headers(headers) == headers.x_user_role

is_super_admin(headers) ==
    LET r == get_role_from_headers(headers)
    IN  IF r.some THEN r.val = "SUPER_ADMIN" ELSE FALSE

\* the callers and payloads the model draws
AdminHeaders == {Headers(Some("SUPER_ADMIN"), None)}
AdminPasswords == {None}
AdminRoles == {None}
AdminOrgs == {None}

\* POST /users: one INSERT; the organisation is the payload's for a super
\* admin, the caller's own otherwise
create_user(headers, email, name, password, organisation_id, role) ==
    /\ LET caller_org == get_org_id_from_headers(headers)
           forbidden ==
               /\ ~is_super_admin(headers)
               /\ \/ ~caller_org.some
                  \/ organisation_id.some /\ organisation_id # caller_org
           org == IF is_super_admin(headers) THEN organisation_id
                  ELSE caller_org
           password_hash == IF password.some
                            THEN Some(hash_password(password.val)) ELSE None
           row == UserRow(nextUserId, org, email, name, password_hash,
                          IF role.some THEN role.val ELSE "USER")
       IN  IF forbidden \/ \E u \in users : u.email = email
           THEN UNCHANGED <<users, nextUserId>>
           ELSE /\ nextUserId <= MaxUsers
                /\ users' = users \cup {row}
                /\ nextUserId' = nextUserId + 1
    /\ resp' = NoResp
    /\ UNCHANGED <<tokens, now, config, req, nextSecret>>

\* DELETE /users/{id}: the row is deleted when the caller may see it;
\* refresh_tokens.user_id is ON DELETE CASCADE
delete_user(headers, id) ==
    /\ \E u \in users : u.id = id
    /\ LET existing == CHOOSE u \in users : u.id = id
           caller_org == get_org_id_from_headers(headers)
           forbidden ==
               /\ ~is_super_admin(headers)
               /\ \/ ~caller_org.some
                  \/ existing.organisation_id # caller_org
       IN  IF forbidden
           THEN UNCHANGED <<users, tokens>>
           ELSE /\ users' = users \ {existing}
                /\ tokens' = {t \in tokens : t.user_id # id}
    /\ resp' = NoResp
    /\ UNCHANGED <<now, config, req, nextUserId, nextSecret>>

---------------------------------------------------------------------------
(* The clock *)

Tick ==
    /\ now + TickSeconds <= MaxTicks * TickSeconds
    /\ now' = now + TickSeconds
    /\ resp' = NoResp
    /\ UNCHANGED <<users, tokens, config, req, nextUserId, nextSecret>>
    /\ UNCHANGED edge

---------------------------------------------------------------------------
(* One step of a request of the auth service; up: the backend answers *)

AuthStep(up) ==
    /\ \E r \in Reqs :
        \/ \E e \in Emails, p \in Passwords : LoginCount(r, e, p, up)
        \/ LoginFind(r, up)
        \/ LoginStore(r, up)
        \/ \E t \in PresentedTokens : RefreshFind(r, t, up)
        \/ RefreshDelete(r, up)
        \/ RefreshUser(r, up)
        \/ RefreshUpdate(r, up)
        \/ \E t \in PresentedTokens : Logout(r, t, up)
        \/ \E e \in Emails, n \in Names, p \in Passwords :
               RegisterCreate(r, e, n, p, up)
        \/ RegisterStore(r, up)
    /\ UNCHANGED edge

AdminStep ==
    /\ \E h \in AdminHeaders :
        \/ \E e \in Emails, n \in Names, p \in AdminPasswords,
              o \in AdminOrgs, ro \in AdminRoles :
               create_user(h, e, n, p, o, ro)
        \/ \E id \in 1..MaxUsers : delete_user(h, id)
    /\ UNCHANGED edge

Next == AuthStep(TRUE) \/ AdminStep \/ Tick

Spec == Init /\ [][Next]_vars

\* the same service with contract calls that may fail
NextFault == Next \/ AuthStep(FALSE)

SpecFault == Init /\ [][NextFault]_vars

---------------------------------------------------------------------------
(* Observations used by the properties *)

\* a row with the hash of this token is in the table
StoredIn(tbl, token) ==
    \E t \in tbl : t.token_hash = hash_refresh_token(token)

\* status and JSON body of a response, without the request it answers
Body(response) ==
    [status |-> response.status, error |-> response.error,
     message |-> response.message, access_token |-> response.access_token,
     refresh_token |-> response.refresh_token, user |-> response.user]

\* the last step answered a request of this kind with this status
Answered(kind, status) == resp.payload.kind = kind /\ resp.status = status

\* the last step answered a login as the virtual default admin
DefaultAdminAnswered ==
    Answered("login", 200) /\ resp.user.val.id = NilUuid

---------------------------------------------------------------------------
(* Properties *)

\* C1: when a refresh is answered 200 and the owner of the token still
\* exists, the hash of the presented (old) token is no longer stored and
\* the hash of the returned (new) token is, so that a following refresh of
\* the old token is refused and one of the new token accepted.
C1_RotationReplacesHash ==
    (Answered("refresh", 200) /\ \E u \in users : u.id = resp.user.val.id)
        => /\ ~StoredIn(tokens, resp.payload.refresh_token)
           /\ StoredIn(tokens, resp.refresh_token.val)

\* C2: of the refresh requests that present one token at most one succeeds:
\* when a refresh of a token is answered 200, no other request that
\* presented the same token is past its lookup and about to be answered
\* 200 as well (a request at refresh_update is answered 200 whatever the
\* update returns).
C2_AtMostOneRefreshSucceeds ==
    \A r \in Reqs :
        (Answered("refresh", 200) /\ req[r].pc = "refresh_update")
            => req[r].payload.refresh_token # resp.payload.refresh_token

\* C3: a login with the configured default-admin credentials is answered
\* 200 only while the user store is empty and no user has ever been
\* created.
C3_BootstrapOnlyWhileNoUser ==
    (Answered("login", 200) /\ default_admin(config, resp.payload).some)
        => (users = {} /\ nextUserId = 1)

\* C4: the step that answers a default-admin login leaves users and
\* refresh_tokens as they were; no user row has the nil id and no
\* refresh-token row is owned by the nil id.
C4_DefaultAdminNotPersisted ==
    [][ /\ DefaultAdminAnswered' => (users' = users /\ tokens' = tokens)
        /\ \A u \in users' : u.id # NilUuid
        /\ \A t \in tokens' : t.user_id # NilUuid ]_vars

C4_Witness == DefaultAdminAnswered /\ resp.refresh_token.some

\* C5: when login, register or refresh answers 200/201 with a refresh
\* token for a user that is stored, a row with the hash of the returned
\* token is in refresh_tokens.
C5_ReturnedTokenIsStored ==
    (/\ resp.status \in {200, 201}
     /\ resp.refresh_token.some
     /\ \E u \in users : u.id = resp.user.val.id)
        => StoredIn(tokens, resp.refresh_token.val)

C7_ExpiredTokenRejected ==
    [][ /\ \A r \in Reqs :
            /\ (/\ req[r].pc = "idle"
                /\ req'[r].pc \in {"refresh_delete", "refresh_user"}
                /\ req'[r].token_info.val.expires_at < now)
                   => /\ req'[r].pc = "refresh_delete"
                      /\ nextSecret' = nextSecret
            /\ (req[r].pc = "refresh_delete" /\ req'[r].pc = "idle")
                   => /\ resp'.status = 401
                      /\ ~resp'.access_token.some
                      /\ ~resp'.refresh_token.some
                      /\ nextSecret' = nextSecret
                      /\ ~StoredIn(tokens', req[r].payload.refresh_token)
                      /\ \A t \in tokens' : t.id # req[r].token_info.val.id
        /\ resp'.error = "invalid_token"
               => ~StoredIn(tokens, resp'.payload.refresh_token) ]_vars

C7_Witness ==
    /\ resp.error = "expired_token"
    /\ resp.status = 401
    /\ users # {}

\* C8: every login that is not answered 200 is answered with the one
\* response 401 "unauthorized" / "Invalid email or password", and its step
\* creates no token and no row; a login whose email is unknown, whose user
\* has no password hash or whose password does not verify gets that
\* response.
C8_LoginFailureUniform ==
    [][ /\ (resp'.payload.kind = "login" /\ resp'.status # 200)
            => /\ Body(resp') = Body(LoginUnauthorized(resp'.payload))
               /\ tokens' = tokens
               /\ nextSecret' = nextSecret
        /\ \A r \in Reqs :
            (/\ req[r].pc = "login_find"
             /\ req'[r].pc # "login_find"
             /\ ~\E u \in users :
                    /\ u.email = req[r].payload.email
                    /\ u.password_hash.some
                    /\ u.password_hash.val = hash_password(req[r].payload.password))
                => resp' = LoginUnauthorized(req[r].payload) ]_vars

\* a login for a stored user that has no password hash was answered 401
C8_Witness ==
    /\ resp.payload.kind = "login"
    /\ resp = LoginUnauthorized(resp.payload)
    /\ \E u \in users : u.email = resp.payload.email /\ ~u.password_hash.some

\* C9: a register request whose email is in users is never taken to the
\* success path; a register request answered at its arrival is answered
\* 400 without tokens, and users and refresh_tokens are as before.
C9_DuplicateRegisterRejected ==
    [][ /\ (resp'.payload.kind = "register" /\ req' = req)
            => /\ resp'.status = 400
               /\ ~resp'.access_token.some
               /\ ~resp'.refresh_token.some
               /\ users' = users
               /\ tokens' = tokens
        /\ \A r \in Reqs :
            (req[r].pc = "idle" /\ req'[r].pc = "register_store")
                => ~\E u \in users : u.email = req'[r].payload.email ]_vars

C9_Witness ==
    /\ Answered("register", 400)
    /\ resp.message = "Email already registered"
    /\ \E u \in users : u.email = resp.payload.email

\* C10: the step that accepts a registration adds exactly one user, with
\* the email and the hashed password of the request, role USER and no
\* organisation; the registration is answered 201 with an access token and
\* a refresh token for that user; a login that arrives while users exist is
\* looked up, and when a user with its email and password is stored it is
\* answered 200 for that user.
C10_RegisterThenLogin ==
    [][ /\ \A r \in Reqs :
            /\ (req[r].pc = "idle" /\ req'[r].pc = "register_store")
                   => \E u \in users' \ users :
                          /\ users' = users \cup {u}
                          /\ u.email = req'[r].payload.email
                          /\ u.password_hash =
                                 Some(hash_password(req'[r].payload.password))
                          /\ u.role = "USER"
                          /\ ~u.organisation_id.some
                          /\ req'[r].user = Some(u)
            /\ (req[r].pc = "register_store" /\ req'[r].pc = "idle")
                   => /\ resp'.status = 201
                      /\ resp'.access_token.some
                      /\ resp'.refresh_token.some
                      /\ resp'.access_token.val.sub = req[r].user.val.id
                      /\ resp'.user = Some(AuthUserInfo(req[r].user.val))
            /\ (/\ req[r].pc = "login_find"
                /\ req'[r].pc # "login_find"
                /\ \E u \in users :
                       /\ u.email = req[r].payload.email
                       /\ u.password_hash =
                              Some(hash_password(req[r].payload.password)))
                   => req'[r].pc = "login_store"
            /\ (req[r].pc = "login_store" /\ req'[r].pc = "idle")
                   => /\ resp'.status = 200
                      /\ resp'.user.val.email = req[r].payload.email
        /\ (resp'.payload.kind = "login" /\ req' = req) => users = {} ]_vars

\* a stored user, whose password only a registration can have set, has
\* logged in
C10_Witness ==
    /\ Answered("login", 200)
    /\ resp.user.val.id # NilUuid
    /\ \E u \in users : u.id = resp.user.val.id /\ u.password_hash.some


---------------------------------------------------------------------------
(* ------------------------------ Gateway ------------------------------ *)
(* The environment the process is started in (app/src/main.rs,            *)
(* auth_core/src/config.rs, gateway_core/src/config.rs).                  *)

Env(JWT_SECRET, AUTH_JWT_SECRET, GATEWAY_ADMIN_MODE) ==
    [JWT_SECRET |-> JWT_SECRET, AUTH_JWT_SECRET |-> AUTH_JWT_SECRET,
     GATEWAY_ADMIN_MODE |-> GATEWAY_ADMIN_MODE]

\* nothing set, or one secret given to both modules; /admin embedded or
\* proxied
Envs ==
    {Env(s[1], s[2], m) : s \in {<<None, None>>, <<Some("k1"), Some("k1")>>},
                          m \in {None, Some("proxy")}}

\* impl Default for AuthConfig: the signing secret and the issuer
AuthConfigDefault(env) ==
    [jwt_secret |-> IF env.AUTH_JWT_SECRET.some THEN env.AUTH_JWT_SECRET.val
                    ELSE "change-me-in-production-super-secret-key"]
    @@ AuthConfig(None, None)

\* main sets the gateway's secret from JWT_SECRET; get_jwt_secret reads it
get_jwt_secret(env) ==
    IF env.JWT_SECRET.some THEN env.JWT_SECRET.val ELSE "secret"

\* RouteMode::from_str
RouteMode_from_str(s) == IF s = "proxy" THEN "Proxy" ELSE "Embedded"

\* GatewayConfig::default: the mode of route /admin; /auth is embedded
admin_mode(env) ==
    IF env.GATEWAY_ADMIN_MODE.some
    THEN RouteMode_from_str(env.GATEWAY_ADMIN_MODE.val) ELSE "Embedded"

---------------------------------------------------------------------------
(* JSON web tokens.  A token is its header, its claims and the key that
   signed it; the signature verifies under that key only. *)

\* jsonwebtoken's default leeway on exp, seconds
Leeway == 60

\* a string that is not a JWT
Malformed == [wellformed |-> FALSE]

\* encode(&Header::default(), &claims, &EncodingKey::from_secret(key))
encode(claims, key) ==
    [wellformed |-> TRUE, alg |-> "HS256", claims |-> claims, key |-> key]

\* Validation::default() and Validation::new(Algorithm::HS256): HS256, exp
\* validated with the default leeway, no issuer required
Validation ==
    [algorithms |-> {"HS256"}, leeway |-> Leeway, validate_exp |-> TRUE,
     iss |-> None]

\* Validation::set_issuer
set_issuer(validation, issuers) == [validation EXCEPT !.iss = Some(issuers)]

\* decode::<Claims>(token, &DecodingKey::from_secret(key), &validation)
decode(token, key, validation, t) ==
    IF ~token.wellformed THEN Err("InvalidToken")
    ELSE IF token.alg \notin validation.algorithms THEN Err("InvalidAlgorithm")
    ELSE IF token.key # key THEN Err("InvalidSignature")
    ELSE IF validation.validate_exp /\ token.claims.exp < t - validation.leeway
         THEN Err("ExpiredSignature")
    ELSE IF validation.iss.some /\ token.claims.iss \notin validation.iss.val
         THEN Err("InvalidIssuer")
    ELSE Ok(token.claims)

\* models.rs: the fields of the Claims the Token Module decodes into
ClaimsFields == {"sub", "iss", "exp", "iat", "email", "name"}

\* serde: a struct is built from the fields it declares; other members of
\* the JSON object are ignored
deserialize(data, fields) ==
    IF data.ok THEN Ok([f \in fields |-> data.val[f]]) ELSE data

\* token.rs: validate_access_token
validate_access_token(token, cfg, t) ==
    deserialize(decode(token, cfg.jwt_secret,
                       set_issuer(Validation, {cfg.issuer}), t),
                ClaimsFields)

---------------------------------------------------------------------------
(* HTTP requests at the gateway.  A header map is a function from the
   header names to Option<value>: a pushed or inserted header replaces the
   one of the same name.  A path is kept in three parts whose concatenation
   is its text: the longest route prefix it begins with, the "/" that may
   follow, and the rest. *)

HeaderNames ==
    {"authorization", "x-api-key", "x-forwarded-for", "x-user-id",
     "x-user-email", "x-user-name", "x-user-role", "x-organisation-id",
     "x-auth", "x-gateway"}

IdentityHeaders ==
    {"x-user-id", "x-user-email", "x-user-name", "x-user-role",
     "x-organisation-id"}

Path(prefix, slash, rest) == [prefix |-> prefix, slash |-> slash, rest |-> rest]

\* variant: no path is taken to begin with the prefix
starts_with_never(path, prefix) == FALSE

\* str::starts_with for a route prefix
starts_with(path, prefix) == path.prefix = prefix

\* Router::nest(route, ..) and the proxy routes: the route itself or a path
\* below it
under(path, route) ==
    path.prefix = route /\ (path.slash = "/" \/ path.rest = "")

Paths ==
    {Path("/auth", "/", "login"), Path("/auth", "/", "validate"),
     Path("/auth", "", "x"), Path("/admin", "/", "users"),
     Path("/other", "", "")}

\* the value of an Authorization header: what precedes the token, the token
Authorization(scheme, token) == [scheme |-> scheme, token |-> token]

\* headers.push((name, value)) followed by HeaderMap::insert
push(headers, name, value) == [headers EXCEPT ![name] = Some(value)]

\* the headers of a client: credentials, the forwarded address, and either
\* no identity header or a full set of its own making
ClientHeaders(authorization, x_api_key, x_forwarded_for, forged) ==
    [h \in HeaderNames |->
        CASE h = "authorization" -> authorization
          [] h = "x-api-key" -> x_api_key
          [] h = "x-forwarded-for" -> x_forwarded_for
          [] h = "x-gateway" -> None
          [] OTHER -> IF ~forged THEN None
                      ELSE CASE h = "x-user-id" -> Some(99)
                             [] h = "x-user-email" -> Some("evil@x.com")
                             [] h = "x-user-name" -> Some("E")
                             [] h = "x-user-role" -> Some("SUPER_ADMIN")
                             [] h = "x-organisation-id" -> Some("orgB")
                             [] h = "x-auth" -> Some("jwt")]

\* types.rs: Request
GatewayRequest(path, headers) == [path |-> path, headers |-> headers]

\* types.rs: Response and Response::unauthorized
GatewayResponse(status, body) == [status |-> status, body |-> body]
unauthorized(body) == GatewayResponse(401, body)

---------------------------------------------------------------------------
(* The middleware (gateway_core/src/middleware.rs) *)

\* the claims of the bearer token of the request, when the gateway accepts
\* it: the first Authorization header, its prefix stripped, decoded under
\* the gateway's secret
bearer_claims(request, env, t) ==
    LET auth == request.headers["authorization"]
    IN  IF ~auth.some THEN None
        ELSE IF auth.val.scheme \notin {"Bearer ", "bearer "} THEN None
        ELSE LET data == decode(auth.val.token, get_jwt_secret(env),
                                Validation, t)
             IN  IF data.ok THEN Some(data.val) ELSE None

\* variant: an x-api-key header counts even when it is empty
has_key_any(request) == request.headers["x-api-key"].some

\* a non-empty x-api-key header
has_key(request) ==
    LET k == request.headers["x-api-key"]
    IN  k.some /\ k.val # ""

Logging_process(request) == Ok(request)

Auth_process(request, env, t) ==
    IF starts_with(request.path, "/auth") THEN Ok(request)
    ELSE LET claims == bearer_claims(request, env, t)
         IN  IF claims.some
             THEN LET c == claims.val
                      h1 == push(request.headers, "x-user-id", c.sub)
                      h2 == push(h1, "x-user-email", c.email)
                      h3 == push(h2, "x-user-name", c.name)
                      h4 == push(h3, "x-user-role", c.role)
                      h5 == IF c.org_id.some
                            THEN push(h4, "x-organisation-id", c.org_id.val)
                            ELSE h4
                  IN  Ok(GatewayRequest(request.path, push(h5, "x-auth", "jwt")))
             ELSE IF ~has_key(request)
             THEN Err(unauthorized("missing authentication"))
             ELSE Ok(GatewayRequest(request.path,
                                    push(request.headers, "x-auth", "api-key")))

HeaderInjection_process(request) ==
    Ok(GatewayRequest(request.path,
                      push(request.headers, "x-gateway", "apisentinel")))

\* Middleware::process of the middleware of this name
process(mw, request, env, t) ==
    CASE mw = "Logging" -> Logging_process(request)
      [] mw = "Auth" -> Auth_process(request, env, t)
      [] mw = "HeaderInjection" -> HeaderInjection_process(request)

default_pipeline == <<"Logging", "Auth", "HeaderInjection">>

\* variant: a rejection does not end the loop; the last result is returned
RECURSIVE apply_through(_, _, _, _, _)
apply_through(pipeline, i, request, env, t) ==
    IF i > Len(pipeline) THEN [res |-> Ok(request), ran |-> <<>>]
    ELSE LET out == process(pipeline[i], request, env, t)
             rest == apply_through(pipeline, i + 1,
                                   IF out.ok THEN out.val ELSE request, env, t)
         IN  [res |-> IF out.ok THEN rest.res ELSE out,
              ran |-> <<pipeline[i]>> \o rest.ran]

\* apply: the loop over the pipeline from its i-th middleware on; ran lists
\* the middleware whose process was called
RECURSIVE apply(_, _, _, _, _)
apply(pipeline, i, request, env, t) ==
    IF i > Len(pipeline) THEN [res |-> Ok(request), ran |-> <<>>]
    ELSE LET out == process(pipeline[i], request, env, t)
         IN  IF ~out.ok THEN [res |-> out, ran |-> <<pipeline[i]>>]
             ELSE LET rest == apply(pipeline, i + 1, out.val, env, t)
                  IN  [res |-> rest.res, ran |-> <<pipeline[i]>> \o rest.ran]

---------------------------------------------------------------------------
(* The rate limiter (gateway_core/src/rate_limit.rs) *)

MaxPerMinute == 100

RateLimiter(max_per_minute) == [max_per_minute |-> max_per_minute]

\* RateLimiter::allow
allow(limiter, ip) == TRUE


---------------------------------------------------------------------------
(* The gateway's server (gateway_core/src/server.rs).  gw.ran lists, in
   order, what has run for the request: the rate-limit gate, the middleware
   whose process was called, then the handler or the proxy. *)

GatewayIdle(env) == [pc |-> "idle", env |-> env]

Serving(env, pc, request, headers, key, ran, response) ==
    [pc |-> pc, env |-> env, request |-> request, headers |-> headers,
     key |-> key, ran |-> ran, response |-> response, upstream |-> None]

\* variant: the forwarded address is not read
client_ip_unknown(request) == "unknown"

\* the key of the rate limiter: the x-forwarded-for header, or "unknown"
client_ip(request) ==
    LET f == request.headers["x-forwarded-for"]
    IN  IF f.some THEN f.val ELSE "unknown"

\* gateway_checks, from the arrival of the request to next.run(req) or to
\* the response that replaces it
gateway_checks(env, request, t) ==
    LET ip == client_ip(request)
    IN  IF ~allow(RateLimiter(MaxPerMinute), ip)
        THEN Serving(env, "responded", request, request.headers, ip,
                     <<"rate_limit">>,
                     Some(GatewayResponse(429, "rate limited")))
        ELSE LET out == apply(default_pipeline, 1, request, env, t)
             IN  IF ~out.res.ok
                 THEN Serving(env, "responded", request, request.headers, ip,
                              <<"rate_limit">> \o out.ran,
                              Some(GatewayResponse(out.res.err.status,
                                                   out.res.err.body)))
                 ELSE Serving(env, "next", request, out.res.val.headers, ip,
                              <<"rate_limit">> \o out.ran, None)

\* the access tokens a client can present: any claims of the Token Module's
\* shape, signed with any key, or no token at all
GatewayNow == 2 * TokenTtlSeconds

IssuedAts ==
    {GatewayNow,
     GatewayNow - TokenTtlSeconds - Leeway \div 2,
     GatewayNow - TokenTtlSeconds - Leeway - 1}

Issuers == {"apisentinel", "other"}

Keys == {"k1", "secret", "change-me-in-production-super-secret-key"}

GatewayUsers ==
    {UserRow(1, Some("orgA"), "a@x.com", "A", None, "ADMIN"),
     UserRow(2, None, "admin@x.com", "A", None, "USER")}

AccessTokens ==
    {Malformed} \cup
    {encode(generate_access_token(u, [AuthConfig(None, None)
                                        EXCEPT !.issuer = i], iat), k) :
        u \in GatewayUsers, i \in Issuers, iat \in IssuedAts, k \in Keys}

Authorizations ==
    {None, Some(Authorization("Basic ", Malformed))} \cup
    {Some(Authorization(sch, tok)) :
        sch \in {"Bearer ", "bearer "}, tok \in AccessTokens}

ApiKeys == {None, Some(""), Some("key")}

ForwardedFor == {None, Some("10.0.0.1")}

ClientRequests ==
    {GatewayRequest(p, ClientHeaders(a, k, f, forged)) :
        p \in Paths, a \in Authorizations, k \in ApiKeys,
        f \in ForwardedFor, forged \in BOOLEAN}

\* a request arrives and runs through gateway_checks
GatewayChecks ==
    /\ gw.pc = "idle"
    /\ \E request \in ClientRequests :
           gw' = gateway_checks(gw.env, request, now)
    /\ UNCHANGED <<users, tokens, now, config, req, resp, nextUserId,
                   nextSecret, orgs, areq, aresp>>

\* the step of the request that next.run(req) performs
Routed(pc, ran, response) ==
    /\ gw.pc = "next"
    /\ gw' = [gw EXCEPT !.pc = pc, !.ran = gw.ran \o ran,
                        !.response = response]
    /\ UNCHANGED <<users, tokens, now, config, req, resp, nextUserId,
                   nextSecret, orgs, areq, aresp>>

\* models.rs: ValidateResponse
ValidateResponse(valid, user_id, email, expires_at) ==
    [valid |-> valid, user_id |-> user_id, email |-> email,
     expires_at |-> expires_at]

\* variant: a token that does not verify is answered 401
validate_unauthorized(headers, cfg, t) ==
    LET auth == headers["authorization"]
        res == validate_access_token(auth.val.token, cfg, t)
    IN  IF auth.some /\ auth.val.scheme = "Bearer " /\ res.ok
        THEN GatewayResponse(200, ValidateResponse(TRUE, Some(res.val.sub),
                                 Some(res.val.email), Some(res.val.exp)))
        ELSE GatewayResponse(401, ValidateResponse(FALSE, None, None, None))

\* GET /auth/validate (auth_core/src/handlers.rs: validate)
validate(headers, cfg, t) ==
    LET auth == headers["authorization"]
    IN  IF ~(auth.some /\ auth.val.scheme = "Bearer ")
        THEN GatewayResponse(200, ValidateResponse(FALSE, None, None, None))
        ELSE LET res == validate_access_token(auth.val.token, cfg, t)
             IN  IF res.ok
                 THEN GatewayResponse(200,
                          ValidateResponse(TRUE, Some(res.val.sub),
                              Some(res.val.email), Some(res.val.exp)))
                 ELSE GatewayResponse(200,
                          ValidateResponse(FALSE, None, None, None))

\* the embedded auth router answers /auth/validate
Validate ==
    /\ gw.pc = "next"
    /\ under(gw.request.path, "/auth")
    /\ gw.request.path.rest = "validate"
    /\ Routed("responded", <<"handler">>,
              Some(validate(gw.headers, AuthConfigDefault(gw.env), now)))

\* an embedded router runs another handler with the headers that reached
\* it; the handlers themselves are those of the auth service and of the
\* admin API
EmbeddedHandler ==
    /\ gw.pc = "next"
    /\ \/ under(gw.request.path, "/auth") /\ gw.request.path.rest # "validate"
       \/ under(gw.request.path, "/admin") /\ admin_mode(gw.env) = "Embedded"
    /\ Routed("responded", <<"handler">>, Some(GatewayResponse(200, "handled")))

\* no route matches the path
NotFound ==
    /\ gw.pc = "next"
    /\ ~under(gw.request.path, "/auth")
    /\ ~under(gw.request.path, "/admin")
    /\ Routed("responded", <<>>, Some(GatewayResponse(404, "")))

\* proxy_route up to the await of Proxy::forward's send()
ProxyForward ==
    /\ gw.pc = "next"
    /\ under(gw.request.path, "/admin")
    /\ admin_mode(gw.env) = "Proxy"
    /\ Routed("forwarding", <<"proxy">>, None)

\* what the upstream sent: a status line, headers and a body
UpstreamResponse(status, headers, body) ==
    [status |-> status, headers |-> headers, body |-> body]

\* proxy.rs: bad_gateway
bad_gateway(message) == [status |-> 502, headers |-> {}, body |-> message]

\* variant: an upstream server error is reported as Bad Gateway
forward_masks(outcome) ==
    IF outcome.ok /\ outcome.val.status >= 500
    THEN Err("upstream status")
    ELSE outcome

\* Proxy::forward from the completion of send(): the upstream's status,
\* every header and the body are copied into the response; an error of
\* send() or of bytes() is returned with `?`
forward(outcome) ==
    IF outcome.ok
    THEN Ok(UpstreamResponse(outcome.val.status, outcome.val.headers,
                             outcome.val.body))
    ELSE Err(outcome.err)

\* proxy_route: the match on the result of forward
proxy_route(outcome) ==
    LET res == forward(outcome)
    IN  IF res.ok THEN res.val ELSE bad_gateway("upstream error")

\* the send() of Proxy::forward completes with an outcome, which gw.upstream
\* records
Upstream(outcome) ==
    /\ gw.pc = "forwarding"
    /\ gw' = [gw EXCEPT !.pc = "responded", !.upstream = Some(outcome),
                        !.response = Some(proxy_route(outcome))]
    /\ UNCHANGED <<users, tokens, now, config, req, resp, nextUserId,
                   nextSecret, orgs, areq, aresp>>

UpstreamStatuses == {200, 404, 500, 502}

UpstreamHeaders == {{}, {"content-type", "set-cookie"}}

\* the upstream answers
UpstreamAnswers ==
    \E st \in UpstreamStatuses, hs \in UpstreamHeaders :
        Upstream(Ok(UpstreamResponse(st, hs, "upstream")))

\* the connection fails, or the body cannot be read
UpstreamFails == Upstream(Err("transport"))

\* the response is written to the client
Respond ==
    /\ gw.pc = "responded"
    /\ gw' = GatewayIdle(gw.env)
    /\ UNCHANGED <<users, tokens, now, config, req, resp, nextUserId,
                   nextSecret, orgs, areq, aresp>>

\* the steps the gateway takes by itself
GatewayStep ==
    Validate \/ EmbeddedHandler \/ NotFound \/ ProxyForward \/ Respond

InitGateway ==
    /\ users = {}
    /\ tokens = {}
    /\ now = GatewayNow
    /\ config \in Configs
    /\ req = [r \in Reqs |-> Idle]
    /\ resp = NoResp
    /\ nextUserId = 1
    /\ nextSecret = 1
    /\ gw \in {GatewayIdle(env) : env \in Envs}
    /\ orgs = {}
    /\ areq = [c \in Callers |-> AdminIdle]
    /\ aresp = NoAdminResp

NextGateway == GatewayChecks \/ GatewayStep \/ UpstreamAnswers \/ UpstreamFails

SpecGateway == InitGateway /\ [][NextGateway]_vars

\* the runtime runs every task that can take a step; clients and upstreams
\* are under no obligation
SpecGatewayFair == SpecGateway /\ WF_vars(GatewayStep)


---------------------------------------------------------------------------
(* Observations on the request the gateway is serving *)

\* this stage has run for the request
Ran(stage) == gw.pc # "idle" /\ \E i \in DOMAIN gw.ran : gw.ran[i] = stage

\* the bearer token of the client's Authorization header, whatever the case
\* of the word
PresentedBearer ==
    LET auth == gw.request.headers["authorization"]
    IN  IF auth.some /\ auth.val.scheme \in {"Bearer ", "bearer "}
        THEN Some(auth.val.token) ELSE None

\* the token is a JWT signed with this key whose exp, with the leeway, has
\* not passed
Verifies(token, key) ==
    /\ token.wellformed
    /\ token.key = key
    /\ token.claims.exp + Leeway >= now

\* the request carries a bearer token the gateway's middleware accepts
GatewayAccepts ==
    /\ PresentedBearer.some
    /\ Verifies(PresentedBearer.val, get_jwt_secret(gw.env))

\* the request carries a bearer token the Token Module accepts
ModuleAccepts ==
    /\ PresentedBearer.some
    /\ Verifies(PresentedBearer.val, AuthConfigDefault(gw.env).jwt_secret)
    /\ PresentedBearer.val.claims.iss = AuthConfigDefault(gw.env).issuer

\* the request carries a non-empty x-api-key header
CarriesApiKey ==
    /\ gw.request.headers["x-api-key"].some
    /\ gw.request.headers["x-api-key"].val # ""

\* the text of the request's path begins with "/auth"
BeginsWithAuth == gw.request.path.prefix = "/auth"

\* the validate handler has answered the request
ValidateAnswered ==
    /\ gw.pc = "responded"
    /\ Ran("handler")
    /\ gw.request.path = Path("/auth", "/", "validate")

---------------------------------------------------------------------------
\* C11: validate answers every request with status 200; valid is true, with
\* the subject, the email and the expiry of the token's claims, exactly when
\* the header is "Bearer " followed by a token that verifies (signature,
\* issuer, exp), and false with no claims otherwise.
C11_ValidateAlways200 ==
    ValidateAnswered =>
        LET auth == gw.request.headers["authorization"]
            verifies ==
                /\ auth.some
                /\ auth.val.scheme = "Bearer "
                /\ ModuleAccepts
            body == gw.response.val.body
        IN  /\ gw.response.val.status = 200
            /\ body.valid = verifies
            /\ verifies =>
                   /\ body.user_id = Some(auth.val.token.claims.sub)
                   /\ body.email = Some(auth.val.token.claims.email)
                   /\ body.expires_at = Some(auth.val.token.claims.exp)
            /\ ~verifies =>
                   /\ body.user_id = None
                   /\ body.email = None
                   /\ body.expires_at = None

\* validate has answered valid: true to a request that carries a token and
\* no API key
C11_Witness ==
    /\ ValidateAnswered
    /\ gw.response.val.body.valid
    /\ gw.request.headers["x-api-key"] = None


---------------------------------------------------------------------------
\* C12: for a path that does not begin with the auth prefix, the request
\* gets past the authentication middleware exactly when it carries a bearer
\* token the middleware accepts or a non-empty x-api-key header, and the
\* x-auth header that reaches the handler is then "jwt", respectively
\* "api-key"; with neither it is answered 401 and no handler or proxy runs.
C12_AuthRequiredOutsidePrefix ==
    (gw.pc # "idle" /\ ~BeginsWithAuth) =>
        /\ Ran("HeaderInjection") <=> (GatewayAccepts \/ CarriesApiKey)
        /\ Ran("HeaderInjection") =>
               gw.headers["x-auth"] =
                   Some(IF GatewayAccepts THEN "jwt" ELSE "api-key")
        /\ ~Ran("HeaderInjection") =>
               /\ gw.pc = "responded"
               /\ gw.response = Some(GatewayResponse(401, "missing authentication"))
               /\ ~Ran("handler")
               /\ ~Ran("proxy")

\* a request with a token the middleware refuses and an API key has reached
\* the admin handler, marked api-key
C12_Witness ==
    /\ Ran("handler")
    /\ gw.request.path = Path("/admin", "/", "users")
    /\ PresentedBearer.some
    /\ ~GatewayAccepts
    /\ gw.headers["x-auth"] = Some("api-key")


---------------------------------------------------------------------------
\* C13: a request whose path begins with /auth gets past the authentication
\* middleware whatever credentials it carries, none included; the identity
\* headers and x-auth reach the handler as the client sent them, the
\* middleware injecting none; and the request is answered by its handler,
\* never by the middleware.
C13_AuthPrefixBypasses ==
    (gw.pc # "idle" /\ BeginsWithAuth) =>
        /\ Ran("HeaderInjection")
        /\ \A h \in IdentityHeaders \cup {"x-auth"} :
               gw.headers[h] = gw.request.headers[h]
        /\ under(gw.request.path, "/auth") =>
               \/ gw.pc = "next"
               \/ gw.pc = "responded" /\ Ran("handler")

\* /auth/login, sent with no Authorization header, no API key and no
\* identity header, has been answered by its handler
C13_Witness ==
    /\ gw.pc = "responded"
    /\ Ran("handler")
    /\ gw.request.path = Path("/auth", "/", "login")
    /\ gw.request.headers["authorization"] = None
    /\ gw.request.headers["x-api-key"] = None
    /\ \A h \in IdentityHeaders \cup {"x-auth"} : gw.headers[h] = None


---------------------------------------------------------------------------
\* C14: for a request authenticated by a bearer token the middleware
\* accepts, x-user-id, x-user-email, x-user-name and x-user-role reaching
\* the handler are those of the token's claims, and x-organisation-id
\* reaches the handler exactly when the claims carry an organisation id,
\* with that id, whatever headers the client sent.
C14_IdentityFromClaims ==
    (Ran("HeaderInjection") /\ ~BeginsWithAuth /\ GatewayAccepts) =>
        LET claims == PresentedBearer.val.claims
        IN  /\ gw.headers["x-user-id"] = Some(claims.sub)
            /\ gw.headers["x-user-email"] = Some(claims.email)
            /\ gw.headers["x-user-name"] = Some(claims.name)
            /\ gw.headers["x-user-role"] = Some(claims.role)
            /\ gw.headers["x-organisation-id"] = claims.org_id


---------------------------------------------------------------------------
\* C15: with one signing secret given to the gateway and to the Token
\* Module, the gateway's middleware accepts a bearer token exactly when the
\* Token Module's validate_access_token accepts it: a token of another
\* issuer or signed with another secret is accepted by neither.
C15_GatewayAgreesWithTokenModule ==
    (/\ gw.pc # "idle"
     /\ gw.env.JWT_SECRET.some
     /\ gw.env.JWT_SECRET = gw.env.AUTH_JWT_SECRET
     /\ PresentedBearer.some
     /\ ~BeginsWithAuth) =>
        LET accepted == Ran("HeaderInjection") /\ gw.headers["x-auth"] = Some("jwt")
            module == validate_access_token(PresentedBearer.val,
                                            AuthConfigDefault(gw.env), now)
        IN  accepted <=> module.ok


---------------------------------------------------------------------------
\* the middleware whose process has been called for the request, in order
MiddlewareRan ==
    SelectSeq(gw.ran, LAMBDA st : st \notin {"rate_limit", "handler", "proxy"})

\* the request carries nothing the authentication middleware accepts
Unauthenticated == ~BeginsWithAuth /\ ~GatewayAccepts /\ ~CarriesApiKey

\* C18: the middleware run in the order logging, authentication, header
\* injection; when one of them rejects the request (authentication, for a
\* request with no accepted credentials), no later middleware, no handler
\* and no proxy forwarder runs for it, the rejection is the response, and
\* the only step left is to send it.
C18_RejectionShortCircuits ==
    [][ /\ gw'.pc # "idle" =>
             \E k \in 0..Len(default_pipeline) :
                 MiddlewareRan' = SubSeq(default_pipeline, 1, k)
        /\ (gw'.pc # "idle" /\ Unauthenticated') =>
             /\ gw'.ran = <<"rate_limit", "Logging", "Auth">>
             /\ gw'.pc = "responded"
             /\ gw'.response = Some(unauthorized("missing authentication"))
        /\ (gw.pc # "idle" /\ Unauthenticated) => gw'.pc = "idle"
      ]_vars

\* a request with no credentials for the admin route has been rejected by
\* the authentication middleware
C18_Witness ==
    /\ gw.pc = "responded"
    /\ gw.request.path = Path("/admin", "/", "users")
    /\ gw.request.headers["authorization"] = None
    /\ gw.request.headers["x-api-key"] = None
    /\ gw.response = Some(unauthorized("missing authentication"))
    /\ gw.ran = <<"rate_limit", "Logging", "Auth">>


---------------------------------------------------------------------------
\* C19: for every request the rate-limit gate is the first thing evaluated,
\* before any middleware, with the value of the request's x-forwarded-for
\* header as its key ("unknown" when the header is absent); a request the
\* gate refuses is answered 429 and neither the middleware chain nor a
\* handler or proxy runs for it.
C19_RateLimitGateFirst ==
    gw.pc # "idle" =>
        /\ gw.ran[1] = "rate_limit"
        /\ \A i \in 2..Len(gw.ran) : gw.ran[i] # "rate_limit"
        /\ gw.key = IF gw.request.headers["x-forwarded-for"].some
                    THEN gw.request.headers["x-forwarded-for"].val
                    ELSE "unknown"
        /\ (gw.response.some /\ gw.response.val.status = 429) =>
               /\ gw.ran = <<"rate_limit">>
               /\ gw.pc = "responded"

\* a request with a forwarded address has passed the gate under that key
\* and then the chain and its handler
C19_Witness ==
    /\ gw.pc = "responded"
    /\ gw.request.headers["x-forwarded-for"] = Some("10.0.0.1")
    /\ gw.key = "10.0.0.1"
    /\ gw.ran = <<"rate_limit", "Logging", "Auth", "HeaderInjection", "handler">>


---------------------------------------------------------------------------
\* C20: a request forwarded to an upstream is eventually answered, by the
\* upstream's response or by a Bad-Gateway response, also when the upstream
\* never answers.
C20_ProxiedRequestAnswered ==
    (gw.pc = "forwarding") ~> (gw.pc = "responded")


---------------------------------------------------------------------------
(* ----------------------------- Admin API ----------------------------- *)
(* The handlers of admin_core/src/handlers.rs on users and organisations, *)
(* one action per statement sent to the database.  update_user and        *)
(* delete_user read the row, check the caller and then write: a request   *)
(* between its two statements waits in a slot of areq.  The row count of *)
(* the list handlers only feeds the X-Total-Count header and is left out. *)

Organisation(id, name, slug) == [id |-> id, name |-> name, slug |-> slug]

OrgIds == {"orgA", "orgB", "orgC"}

\* the callers: the identity headers that reach the handlers with their
\* requests; a caller has one request at a time
TenantHeaders ==
    <<Headers(Some("ADMIN"), Some("orgA")),
      Headers(Some("SUPER_ADMIN"), None),
      Headers(Some("USER"), None)>>

headers_of(c) == TenantHeaders[((c - 1) % Len(TenantHeaders)) + 1]

\* Result<impl IntoResponse, StatusCode>: the status and the rows of the body
AdminResp(op, headers, status, shown_users, shown_orgs) ==
    [op |-> op, headers |-> headers, status |-> status,
     users |-> shown_users, orgs |-> shown_orgs]

\* Err(StatusCode): a status and no body
Refused(status) == AdminResp("refused", Headers(None, None), status, {}, {})

\* a handler answers and leaves the tables as given; what a super admin
\* is answered is not observed
Answer(response, users2, orgs2, nextUserId2, areq2) ==
    /\ aresp' = IF response # NoAdminResp /\ is_super_admin(response.headers)
                THEN NoAdminResp ELSE response
    /\ users' = users2
    /\ orgs' = orgs2
    /\ nextUserId' = nextUserId2
    /\ areq' = areq2
    /\ UNCHANGED <<tokens, now, config, req, resp, nextSecret, gw>>

\* the organisation the list handlers filter by
list_filter(headers) ==
    IF is_super_admin(headers) THEN None ELSE get_org_id_from_headers(headers)

\* SELECT .. WHERE <column> = $1 when there is an organisation to filter
\* by, SELECT .. of every row otherwise
list_rows(rows, org_id, column) ==
    IF org_id.some THEN {row \in rows : row[column] = org_id.val} ELSE rows

\* GET /organisations
list_organisations(headers) ==
    Answer(AdminResp("list_organisations", headers, 200, {},
                     list_rows(orgs, list_filter(headers), "id")),
           users, orgs, nextUserId, areq)

\* GET /organisations/{id}
get_organisation(headers, id) ==
    LET caller_org == get_org_id_from_headers(headers)
        forbidden ==
            ~is_super_admin(headers) /\ caller_org.some /\ caller_org.val # id
        found == {o \in orgs : o.id = id}
    IN  Answer(IF forbidden
               THEN Refused(403)
               ELSE IF found = {}
               THEN Refused(404)
               ELSE AdminResp("get_organisation", headers, 200, {}, found),
               users, orgs, nextUserId, areq)

\* POST /organisations: the id is a fresh Uuid; slug is UNIQUE
create_organisation(headers, name, slug) ==
    LET fresh == OrgIds \ {o.id : o \in orgs}
        id == CHOOSE f \in fresh : TRUE
        row == Organisation(id, name, slug)
    IN  IF ~is_super_admin(headers)
        THEN Answer(Refused(403),
                    users, orgs, nextUserId, areq)
        ELSE IF \E o \in orgs : o.slug = slug
        THEN Answer(Refused(500),
                    users, orgs, nextUserId, areq)
        ELSE /\ fresh # {}
             /\ Cardinality(orgs) < MaxOrgs
             /\ Answer(AdminResp("create_organisation", headers, 201, {}, {row}),
                       users, orgs \cup {row}, nextUserId, areq)

\* PUT /organisations/{id}: COALESCE keeps a column the payload leaves out
update_organisation(headers, id, name, slug) ==
    LET caller_org == get_org_id_from_headers(headers)
        forbidden ==
            ~is_super_admin(headers)
            /\ (~caller_org.some \/ caller_org.val # id)
        found == {o \in orgs : o.id = id}
        old == CHOOSE o \in found : TRUE
        row == Organisation(id, IF name.some THEN name.val ELSE old.name,
                            IF slug.some THEN slug.val ELSE old.slug)
    IN  Answer(IF forbidden
               THEN Refused(403)
               ELSE IF found = {}
               THEN Refused(404)
               ELSE IF \E o \in orgs \ found : o.slug = row.slug
               THEN Refused(500)
               ELSE AdminResp("update_organisation", headers, 200, {}, {row}),
               users,
               IF forbidden \/ found = {}
                  \/ \E o \in orgs \ found : o.slug = row.slug
               THEN orgs ELSE (orgs \ found) \cup {row},
               nextUserId, areq)

\* DELETE /organisations/{id}: users.organisation_id is ON DELETE SET NULL
delete_organisation(headers, id) ==
    LET found == {o \in orgs : o.id = id}
    IN  IF ~is_super_admin(headers)
        THEN Answer(Refused(403),
                    users, orgs, nextUserId, areq)
        ELSE IF found = {}
        THEN Answer(Refused(404),
                    users, orgs, nextUserId, areq)
        ELSE Answer(AdminResp("delete_organisation", headers, 200, {}, found),
                    {IF u.organisation_id = Some(id)
                     THEN [u EXCEPT !.organisation_id = None] ELSE u :
                         u \in users},
                    orgs \ found, nextUserId, areq)

\* GET /users
list_users(headers) ==
    Answer(AdminResp("list_users", headers, 200,
                     list_rows(users,
                               IF list_filter(headers).some
                               THEN Some(list_filter(headers)) ELSE None,
                               "organisation_id"), {}),
           users, orgs, nextUserId, areq)

\* the caller may not act on this user: a super admin may act on any, the
\* others on the users of their own organisation
forbidden_user(headers, user) ==
    LET caller_org == get_org_id_from_headers(headers)
    IN  /\ ~is_super_admin(headers)
        /\ \/ ~caller_org.some
           \/ user.organisation_id # caller_org

\* GET /users/{id}
get_user(headers, id) ==
    LET found == {u \in users : u.id = id}
        user == CHOOSE u \in found : TRUE
    IN  Answer(IF found = {}
               THEN Refused(404)
               ELSE IF forbidden_user(headers, user)
               THEN Refused(403)
               ELSE AdminResp("get_user", headers, 200, found, {}),
               users, orgs, nextUserId, areq)

\* POST /users, with its response: email is UNIQUE, organisation_id
\* REFERENCES organisations
admin_create_user(headers, email, name, organisation_id) ==
    LET caller_org == get_org_id_from_headers(headers)
        forbidden ==
            /\ ~is_super_admin(headers)
            /\ \/ ~caller_org.some
               \/ organisation_id.some /\ organisation_id # caller_org
        org == IF is_super_admin(headers) THEN organisation_id ELSE caller_org
        row == UserRow(nextUserId, org, email, name, None, "USER")
    IN  IF forbidden
        THEN Answer(Refused(403),
                    users, orgs, nextUserId, areq)
        ELSE IF \/ \E u \in users : u.email = email
                \/ org.some /\ ~\E o \in orgs : o.id = org.val
        THEN Answer(Refused(500),
                    users, orgs, nextUserId, areq)
        ELSE /\ nextUserId <= MaxAdminUsers
             /\ Answer(AdminResp("create_user", headers, 201, {row}, {}),
                       users \cup {row}, orgs, nextUserId + 1, areq)

\* a request of update_user or delete_user past its check, the write to
\* come
Checked(op, headers, id, name, organisation_id) ==
    [pc |-> op, headers |-> headers, id |-> id, name |-> name,
     organisation_id |-> organisation_id]

\* PUT /users/{id}: the SELECT and the checks
update_user_select(c, headers, id, name, organisation_id) ==
    /\ areq[c].pc = "idle"
    /\ LET found == {u \in users : u.id = id}
           existing == CHOOSE u \in found : TRUE
           caller_org == get_org_id_from_headers(headers)
       IN  IF found = {}
           THEN Answer(Refused(404),
                       users, orgs, nextUserId, areq)
           ELSE IF \/ forbidden_user(headers, existing)
                   \/ /\ ~is_super_admin(headers)
                      /\ organisation_id.some
                      /\ organisation_id # caller_org
           THEN Answer(Refused(403),
                       users, orgs, nextUserId, areq)
           ELSE Answer(NoAdminResp, users, orgs, nextUserId,
                       [areq EXCEPT ![c] = Checked("update_user", headers, id,
                                                   name, organisation_id)])

\* PUT /users/{id}: the UPDATE .. WHERE id = $6
update_user_update(c) ==
    /\ areq[c].pc = "update_user"
    /\ LET s == areq[c]
           found == {u \in users : u.id = s.id}
           old == CHOOSE u \in found : TRUE
           row == [old EXCEPT
                     !.name = IF s.name.some THEN s.name.val ELSE old.name,
                     !.organisation_id =
                         IF s.organisation_id.some THEN s.organisation_id
                         ELSE old.organisation_id]
           idle == [areq EXCEPT ![c] = AdminIdle]
       IN  IF found = {}
           THEN Answer(Refused(404),
                       users, orgs, nextUserId, idle)
           ELSE IF row.organisation_id.some
                   /\ ~\E o \in orgs : o.id = row.organisation_id.val
           THEN Answer(Refused(500),
                       users, orgs, nextUserId, idle)
           ELSE Answer(AdminResp("update_user", s.headers, 200, {row}, {}),
                       (users \ found) \cup {row}, orgs, nextUserId, idle)

\* DELETE /users/{id}: the SELECT and the check
delete_user_select(c, headers, id) ==
    /\ areq[c].pc = "idle"
    /\ LET found == {u \in users : u.id = id}
           existing == CHOOSE u \in found : TRUE
       IN  IF found = {}
           THEN Answer(Refused(404),
                       users, orgs, nextUserId, areq)
           ELSE IF forbidden_user(headers, existing)
           THEN Answer(Refused(403),
                       users, orgs, nextUserId, areq)
           ELSE Answer(NoAdminResp, users, orgs, nextUserId,
                       [areq EXCEPT ![c] = Checked("delete_user", headers, id,
                                                   None, None)])

\* DELETE /users/{id}: the DELETE .. WHERE id = $1
delete_user_delete(c) ==
    /\ areq[c].pc = "delete_user"
    /\ LET s == areq[c]
           found == {u \in users : u.id = s.id}
           idle == [areq EXCEPT ![c] = AdminIdle]
       IN  IF found = {}
           THEN Answer(Refused(404),
                       users, orgs, nextUserId, idle)
           ELSE Answer(AdminResp("delete_user", s.headers, 200, found, {}),
                       users \ found, orgs, nextUserId, idle)

\* the payloads the model draws
TenantNames == {None}
TenantOrgIds == {"orgA", "orgB"}
TenantOrgs == {None} \cup {Some(id) : id \in TenantOrgIds}
TenantSlugs == {"c"}

TenantStep ==
    \E c \in Callers : LET h == headers_of(c) IN
        \/ list_organisations(h)
        \/ \E id \in TenantOrgIds : get_organisation(h, id)
        \/ \E sl \in TenantSlugs : create_organisation(h, "C", sl)
        \/ \E id \in TenantOrgIds : update_organisation(h, id, Some("Z"), None)
        \/ \E id \in TenantOrgIds : delete_organisation(h, id)
        \/ list_users(h)
        \/ \E id \in 1..MaxAdminUsers : get_user(h, id)
        \/ \E o \in TenantOrgs : admin_create_user(h, "c@x.com", "C", o)
        \/ \E id \in 1..MaxAdminUsers, n \in TenantNames, o \in TenantOrgs :
               update_user_select(c, h, id, n, o)
        \/ update_user_update(c)
        \/ \E id \in 1..MaxAdminUsers : delete_user_select(c, h, id)
        \/ delete_user_delete(c)

\* two organisations, and a user in the first
InitTenants ==
    /\ users = {UserRow(1, Some("orgA"), "a@x.com", "A", None, "USER")}
    /\ orgs = {Organisation("orgA", "A", "a"), Organisation("orgB", "B", "b")}
    /\ tokens = {}
    /\ now = 0
    /\ config \in Configs
    /\ req = [r \in Reqs |-> Idle]
    /\ resp = NoResp
    /\ nextUserId = 2
    /\ nextSecret = 1
    /\ gw = NoGatewayRequest
    /\ areq = [c \in Callers |-> AdminIdle]
    /\ aresp = NoAdminResp

SpecTenants == InitTenants /\ [][TenantStep]_vars


---------------------------------------------------------------------------
(* Observations on the admin API *)

\* the last step answered a caller that is no super admin and carries an
\* organisation id
TenantAnswered(response) ==
    /\ response.op \notin {"none", "refused"}
    /\ ~is_super_admin(response.headers)
    /\ get_org_id_from_headers(response.headers).some

\* a row of this organisation is not the caller's
Foreign(organisation_id, caller_org) ==
    organisation_id.some /\ organisation_id # caller_org

---------------------------------------------------------------------------
\* C16: a step that answers a caller who is no super admin and carries the
\* id of organisation A returns no user and no organisation of another
\* organisation, and the rows it creates, changes or deletes are rows of A:
\* every user row it removes or replaces belonged to no other organisation
\* before the step, every user row it writes belongs to none after it, and
\* the only organisation row it touches is A's.
C16_TenantIsolation ==
    [][ TenantAnswered(aresp') =>
            LET caller_org == get_org_id_from_headers(aresp'.headers)
            IN  /\ \A u \in aresp'.users :
                       ~Foreign(u.organisation_id, caller_org)
                /\ \A o \in aresp'.orgs : o.id = caller_org.val
                /\ \A u \in users \ users' :
                       ~Foreign(u.organisation_id, caller_org)
                /\ \A u \in users' \ users :
                       ~Foreign(u.organisation_id, caller_org)
                /\ \A o \in (orgs \ orgs') \cup (orgs' \ orgs) :
                       o.id = caller_org.val
      ]_vars

---------------------------------------------------------------------------
\* C17: list_users, list_organisations and get_organisation show no user
\* and no organisation to a caller who is no super admin and carries no
\* organisation id.
C17_NoOrganisationSeesNothing ==
    (/\ aresp.op \in {"list_users", "list_organisations", "get_organisation"}
     /\ ~is_super_admin(aresp.headers)
     /\ ~get_org_id_from_headers(aresp.headers).some) =>
        /\ aresp.users = {}
        /\ aresp.orgs = {}


---------------------------------------------------------------------------
(* ------------------------ The reverse proxy ------------------------- *)

\* the number of calls the gateway has made to the upstream for the request
UpstreamCalls ==
    Cardinality({i \in DOMAIN gw.ran : gw.ran[i] = "proxy"})

\* the request was forwarded and the outcome of the call is known
Forwarded == gw.pc = "responded" /\ gw.upstream.some

C21_WitnessMirror ==
    /\ Forwarded
    /\ gw.upstream.val.ok
    /\ gw.upstream.val.val.status = 500
    /\ gw.upstream.val.val.headers # {}
    /\ gw.response.val = gw.upstream.val.val


---------------------------------------------------------------------------
(* The remote implementation of the contracts (auth_core/src/http_client.rs)
   and the peer's internal API (admin_core/src/internal_handlers.rs).  The
   peer's UserService and RefreshTokenService (admin_core/src/user_service.rs)
   run the statements of the direct implementation and return their error as
   anyhow::Error; the internal handlers answer every such error with 500. *)

\* UPDATE users SET password_hash WHERE id (direct implementation)
update_password(up, user_id, password_hash) ==
    IF ~up THEN [res |-> Err("Internal"), tbl |-> users]
    ELSE [res |-> Ok("unit"),
          tbl |-> {IF u.id = user_id
                   THEN [u EXCEPT !.password_hash = Some(password_hash)]
                   ELSE u : u \in users}]

\* an HTTP response of the peer: a status and a JSON body, if any
HttpResponse(status, body) == [status |-> status, body |-> body]

\* StatusCode::is_success
is_success(status) == status >= 200 /\ status < 300

\* serde: UserWithPassword of the peer, serialized field by field
UserJson(u) ==
    [id |-> u.id, organisation_id |-> u.organisation_id, email |-> u.email,
     name |-> u.name, password_hash |-> u.password_hash, role |-> u.role]

\* serde: RefreshTokenInfoResponse
RefreshTokenInfoResponse(info) ==
    [id |-> info.id, user_id |-> info.user_id,
     organisation_id |-> info.organisation_id, expires_at |-> info.expires_at]

\* resp.json::<T>(): the body deserializes when it has the fields of T
json(body, fields) ==
    IF body.some /\ DOMAIN body.val = fields
    THEN Ok(body.val)
    ELSE Err("Internal")

UserWithPasswordFields ==
    {"id", "organisation_id", "email", "name", "password_hash", "role"}

RefreshTokenInfoFields == {"id", "user_id", "organisation_id", "expires_at"}

\* the answer of the internal handlers to an error of the service
InternalError == HttpResponse(500, Some([error |-> "error"]))

\* GET /internal/users/count
get_user_count(r) ==
    IF r.ok THEN HttpResponse(200, Some([count |-> r.val])) ELSE InternalError

\* GET /internal/users/by-email/{email} and GET /internal/users/{id}
get_user_by_email(r) ==
    IF ~r.ok THEN InternalError
    ELSE IF r.val.some THEN HttpResponse(200, Some(UserJson(r.val.val)))
    ELSE HttpResponse(404, None)

get_user_by_id_internal(r) == get_user_by_email(r)

\* POST /internal/users
create_user_internal(r) ==
    IF r.ok THEN HttpResponse(201, Some(UserJson(r.val))) ELSE InternalError

\* POST /internal/refresh-tokens
create_refresh_token(r) ==
    IF r.ok THEN HttpResponse(201, Some([id |-> r.val])) ELSE InternalError

\* GET /internal/refresh-tokens/by-hash/{hash}
get_refresh_token_by_hash(r) ==
    IF ~r.ok THEN InternalError
    ELSE IF r.val.some
         THEN HttpResponse(200, Some(RefreshTokenInfoResponse(r.val.val)))
    ELSE HttpResponse(404, None)

\* PUT /internal/refresh-tokens/{id}
update_refresh_token(r) ==
    IF r.ok THEN HttpResponse(204, None) ELSE InternalError

\* DELETE /internal/refresh-tokens/{id} and .../by-hash/{hash}
delete_refresh_token(r) ==
    IF r.ok THEN HttpResponse(204, None) ELSE HttpResponse(500, None)

delete_refresh_token_by_hash(r) == delete_refresh_token(r)

\* the router of the admin service has no route for
\* PUT /internal/users/{id}/password
no_route == HttpResponse(404, None)


\* The remote implementation: outcome is the result of send(), Ok(response)
\* or the transport error, which every operation maps to Connection.

HttpUserService_count(outcome) ==
    IF ~outcome.ok THEN Err("Connection")
    ELSE IF ~is_success(outcome.val.status) THEN Err("Internal")
    ELSE LET data == json(outcome.val.body, {"count"})
         IN  IF data.ok THEN Ok(data.val.count) ELSE Err("Internal")

HttpUserService_find_by_email(outcome) ==
    IF ~outcome.ok THEN Err("Connection")
    ELSE IF outcome.val.status = 404 THEN Ok(None)
    ELSE IF ~is_success(outcome.val.status) THEN Err("Internal")
    ELSE LET user == json(outcome.val.body, UserWithPasswordFields)
         IN  IF user.ok THEN Ok(Some(user.val)) ELSE Err("Internal")

HttpUserService_find_by_id(outcome) ==
    IF ~outcome.ok THEN Err("Connection")
    ELSE IF outcome.val.status = 404 THEN Ok(None)
    ELSE IF ~is_success(outcome.val.status) THEN Err("Internal")
    ELSE LET user == json(outcome.val.body, UserWithPasswordFields)
         IN  IF user.ok THEN Ok(Some(user.val)) ELSE Err("Internal")

HttpUserService_create(outcome) ==
    IF ~outcome.ok THEN Err("Connection")
    ELSE IF ~is_success(outcome.val.status)
         THEN IF outcome.val.status = 409 THEN Err("AlreadyExists")
              ELSE Err("Internal")
    ELSE LET user == json(outcome.val.body, UserWithPasswordFields)
         IN  IF user.ok THEN Ok(user.val) ELSE Err("Internal")

HttpUserService_update_password(outcome) ==
    IF ~outcome.ok THEN Err("Connection")
    ELSE IF ~is_success(outcome.val.status) THEN Err("Internal")
    ELSE Ok("unit")

HttpRefreshTokenService_create(outcome) ==
    IF ~outcome.ok THEN Err("Connection")
    ELSE IF ~is_success(outcome.val.status) THEN Err("Internal")
    ELSE LET data == json(outcome.val.body, {"id"})
         IN  IF data.ok THEN Ok(data.val.id) ELSE Err("Internal")

HttpRefreshTokenService_find_by_hash(outcome) ==
    IF ~outcome.ok THEN Err("Connection")
    ELSE IF outcome.val.status = 404 THEN Ok(None)
    ELSE IF ~is_success(outcome.val.status) THEN Err("Internal")
    ELSE LET info == json(outcome.val.body, RefreshTokenInfoFields)
         IN  IF info.ok THEN Ok(Some(info.val)) ELSE Err("Internal")

HttpRefreshTokenService_update(outcome) ==
    IF ~outcome.ok THEN Err("Connection")
    ELSE IF ~is_success(outcome.val.status) THEN Err("Internal")
    ELSE Ok("unit")

HttpRefreshTokenService_delete_by_hash(outcome) ==
    IF ~outcome.ok THEN Err("Connection")
    ELSE IF ~is_success(outcome.val.status) /\ outcome.val.status # 404
         THEN Err("Internal")
    ELSE Ok("unit")

HttpRefreshTokenService_delete(outcome) ==
    IF ~outcome.ok THEN Err("Connection")
    ELSE IF ~is_success(outcome.val.status) /\ outcome.val.status # 404
         THEN Err("Internal")
    ELSE Ok("unit")

\* the operations of the two contracts
UserOps == {"count", "find_by_email", "find_by_id", "create", "update_password"}

TokenOps ==
    {"token_create", "find_by_hash", "update", "delete_by_hash", "delete"}

ContractOps == UserOps \cup TokenOps

\* the remote implementation of operation op, given the outcome of its call
remote(op, outcome) ==
    CASE op = "count"           -> HttpUserService_count(outcome)
      [] op = "find_by_email"   -> HttpUserService_find_by_email(outcome)
      [] op = "find_by_id"      -> HttpUserService_find_by_id(outcome)
      [] op = "create"          -> HttpUserService_create(outcome)
      [] op = "update_password" -> HttpUserService_update_password(outcome)
      [] op = "token_create"    -> HttpRefreshTokenService_create(outcome)
      [] op = "find_by_hash"    -> HttpRefreshTokenService_find_by_hash(outcome)
      [] op = "update"          -> HttpRefreshTokenService_update(outcome)
      [] op = "delete_by_hash"  -> HttpRefreshTokenService_delete_by_hash(outcome)
      [] op = "delete"          -> HttpRefreshTokenService_delete(outcome)


\* a call of a contract operation with its arguments
Call(op, id, email, token_hash) ==
    [op |-> op, id |-> id, email |-> email, token_hash |-> token_hash]

ContractIds == 1..2

ContractHashes == {hash_refresh_token(s) : s \in 1..2}

\* the arguments an operation reads are drawn; the others are fixed
ContractCalls ==
    {Call("count", 1, "a@x.com", hash_refresh_token(1))} \cup
    {Call(op, 1, email, hash_refresh_token(1)) :
        op \in {"find_by_email", "create"}, email \in Emails} \cup
    {Call(op, id, "a@x.com", hash_refresh_token(1)) :
        op \in {"find_by_id", "update_password", "delete"},
        id \in ContractIds} \cup
    {Call(op, 1, "a@x.com", h) :
        op \in {"find_by_hash", "delete_by_hash"}, h \in ContractHashes} \cup
    {Call(op, id, "a@x.com", h) :
        op \in {"token_create", "update"}, id \in ContractIds,
        h \in ContractHashes}

\* the statement of call c on the store, with the Uuid::new_v4() of an
\* insert taken from nextUserId or nextSecret: its result and the tables
\* after it
statement(c, up) ==
    LET reads(r) == [res |-> r, users |-> users, tokens |-> tokens]
        on_users(w) == [res |-> w.res, users |-> w.tbl, tokens |-> tokens]
        on_tokens(w) == [res |-> w.res, users |-> users, tokens |-> w.tbl]
    IN  CASE c.op = "count" -> reads(count(up))
          [] c.op = "find_by_email" -> reads(find_by_email(up, c.email))
          [] c.op = "find_by_id" -> reads(find_by_id(up, c.id))
          [] c.op = "create" ->
                on_users(user_create(up, nextUserId, c.email, "A",
                                     hash_password("pw1"), None, "USER"))
          [] c.op = "update_password" ->
                on_users(update_password(up, c.id, hash_password("admin123")))
          [] c.op = "token_create" ->
                on_tokens(token_create(up, nextSecret, c.id, None,
                                       c.token_hash, now + RefreshTokenSeconds))
          [] c.op = "find_by_hash" -> reads(find_by_hash(up, c.token_hash))
          [] c.op = "update" ->
                on_tokens(update(up, c.id, c.token_hash,
                                 now + RefreshTokenSeconds))
          [] c.op = "delete_by_hash" ->
                on_tokens(delete_by_hash(up, c.token_hash))
          [] c.op = "delete" -> on_tokens(delete(up, c.id))

\* the direct implementation returns the result of the statement
direct(c, up) == statement(c, up)

\* the peer routes the request of call c to its internal handler, which runs
\* the statement and answers
peer(c, up) ==
    LET s == statement(c, up)
        answers(response) ==
            [response |-> response, users |-> s.users, tokens |-> s.tokens]
    IN  CASE c.op = "count" -> answers(get_user_count(s.res))
          [] c.op = "find_by_email" -> answers(get_user_by_email(s.res))
          [] c.op = "find_by_id" -> answers(get_user_by_id_internal(s.res))
          [] c.op = "create" -> answers(create_user_internal(s.res))
          [] c.op = "update_password" ->
                [response |-> no_route, users |-> users, tokens |-> tokens]
          [] c.op = "token_create" -> answers(create_refresh_token(s.res))
          [] c.op = "find_by_hash" -> answers(get_refresh_token_by_hash(s.res))
          [] c.op = "update" -> answers(update_refresh_token(s.res))
          [] c.op = "delete_by_hash" ->
                answers(delete_refresh_token_by_hash(s.res))
          [] c.op = "delete" -> answers(delete_refresh_token(s.res))

\* what a contract call returned: by the remote implementation, and by the
\* direct one on the same store
Returned(c, to, up, remote_result, direct_result) ==
    [kind |-> "contract", call |-> c, to |-> to, up |-> up,
     remote |-> remote_result, direct |-> direct_result]

\* a call of the remote implementation to the admin service's internal API;
\* aresp is the outcome of send()
ContractCall ==
    \E c \in ContractCalls, up \in BOOLEAN, reach \in BOOLEAN :
        /\ c.op = "create" => nextUserId <= MaxAdminUsers
        /\ c.op = "token_create" => nextSecret <= MaxSecrets
        /\ LET p == peer(c, up)
               outcome == IF reach THEN Ok(p.response) ELSE Err("transport")
           IN  /\ aresp' = outcome
               /\ resp' = Returned(c, "internal_api", up, remote(c.op, outcome),
                                   direct(c, up).res)
               /\ users' = IF reach THEN p.users ELSE users
               /\ tokens' = IF reach THEN p.tokens ELSE tokens
               /\ nextUserId' = IF reach /\ p.users # users
                                THEN nextUserId + 1 ELSE nextUserId
               /\ nextSecret' = IF reach /\ c.op = "token_create"
                                         /\ p.tokens # tokens
                                THEN nextSecret + 1 ELSE nextSecret
        /\ UNCHANGED <<now, config, req, gw, orgs, areq>>

\* the statuses and bodies an HTTP peer can answer with
PeerStatuses == {200, 404, 409, 500}

PeerBodies ==
    {None, Some([count |-> 1]), Some([id |-> 1]),
     Some(UserJson(UserRow(1, None, "a@x.com", "A",
                           Some(hash_password("pw1")), "USER"))),
     Some(RefreshTokenInfoResponse(
              TokenRow(1, 1, None, hash_refresh_token(1),
                       RefreshTokenSeconds)))}

PeerOutcomes ==
    {Err("transport")} \cup
    {Ok(HttpResponse(st, b)) : st \in PeerStatuses, b \in PeerBodies}

\* a call of the remote implementation answered by any HTTP peer
PeerAnswers ==
    \E c \in ContractCalls, outcome \in PeerOutcomes :
        /\ c.id = 1 /\ c.email = "a@x.com" /\ c.token_hash = hash_refresh_token(1)
        /\ aresp' = outcome
        /\ resp' = Returned(c, "any", TRUE, remote(c.op, outcome), None)
        /\ UNCHANGED <<users, tokens, now, config, req, nextUserId,
                       nextSecret, gw, orgs, areq>>

\* the remote implementation over the admin service's internal API
SpecContracts == Init /\ [][ContractCall]_vars

\* the remote implementation against any HTTP peer
SpecRemote == Init /\ [][PeerAnswers]_vars

\* a call to the internal API that reached the peer has returned
ReturnedByPeer ==
    /\ resp # NoResp
    /\ resp.to = "internal_api"
    /\ aresp.ok

\* C22: for every contract operation and every store state, the direct
\* implementation and the remote implementation (calling the peer's
\* internal API over the same store) return the same result to the caller,
\* with the same ContractError variant.
C22_DirectRemoteSameResult ==
    ReturnedByPeer => resp.remote = resp.direct


\* C22 (second part): creating a user whose email already exists yields
\* AlreadyExists from the remote implementation as it does from the direct
\* one.
C22_DuplicateEmailAlreadyExists ==
    (/\ ReturnedByPeer
     /\ resp.call.op = "create"
     /\ resp.direct = Err("AlreadyExists"))
        => resp.remote = Err("AlreadyExists")


\* an HTTP peer has answered a call of the remote implementation, or the
\* call failed in transport
AnsweredByPeer == resp # NoResp /\ resp.to = "any"

\* C23: in every operation of the remote implementation the peer's HTTP
\* outcome is mapped the same way: a transport failure gives Connection,
\* 404 gives an empty result (None, or success) and not an error, 409 gives
\* AlreadyExists, any other non-2xx status gives Internal.
C23_UniformStatusMapping ==
    AnsweredByPeer =>
        IF ~aresp.ok THEN resp.remote = Err("Connection")
        ELSE /\ aresp.val.status = 404 =>
                    resp.remote \in {Ok(None), Ok("unit")}
             /\ aresp.val.status = 409 => resp.remote = Err("AlreadyExists")
             /\ (/\ ~is_success(aresp.val.status)
                 /\ aresp.val.status \notin {404, 409})
                    => resp.remote = Err("Internal")


---------------------------------------------------------------------------
(* The Token Module by itself: an access token is generated for a user, the
   clock advances, and the token is validated by the Token Module and by the
   gateway's middleware (SpecToken). *)

\* the instants at which a token is generated
TokenEpochs == {0, GatewayNow}

\* the clock is followed until the leeway on the token's expiry is over
TokenClockSteps == {1, TokenTtlSeconds}

\* an access token issued to user under the environment env, and the latest
\* verdicts on it
Issued(env, user, token, validated, gateway) ==
    [kind |-> "token", env |-> env, user |-> user, token |-> token,
     validated |-> validated, gateway |-> gateway]

\* generate_access_token, signed with the configured secret
GenerateToken ==
    /\ resp = NoResp
    /\ \E env \in Envs, user \in GatewayUsers :
          LET cfg == AuthConfigDefault(env)
          IN  resp' = Issued(env, user,
                             encode(generate_access_token(user, cfg, now),
                                    cfg.jwt_secret),
                             None, None)
    /\ UNCHANGED <<users, tokens, now, config, req, nextUserId, nextSecret>>
    /\ UNCHANGED edge

\* SystemTime::now() moves on
TokenClock ==
    /\ resp # NoResp
    /\ \E d \in TokenClockSteps :
          /\ now + d <= resp.token.claims.exp + Leeway + 1
          /\ now' = now + d
    /\ resp' = [resp EXCEPT !.validated = None, !.gateway = None]
    /\ UNCHANGED <<users, tokens, config, req, nextUserId, nextSecret>>
    /\ UNCHANGED edge

\* the token is presented: validate_access_token under the configuration it
\* was generated with, and the middleware's decoding of it as a bearer token
ValidateToken ==
    /\ resp # NoResp
    /\ ~resp.validated.some
    /\ LET request ==
               GatewayRequest(Path("/other", "", ""),
                   ClientHeaders(Some(Authorization("Bearer ", resp.token)),
                                 None, None, FALSE))
       IN  resp' = [resp EXCEPT
                      !.validated = Some(validate_access_token(
                                        resp.token, AuthConfigDefault(resp.env),
                                        now)),
                      !.gateway = Some(bearer_claims(request, resp.env, now))]
    /\ UNCHANGED <<users, tokens, now, config, req, nextUserId, nextSecret>>
    /\ UNCHANGED edge

InitToken ==
    /\ users = {}
    /\ tokens = {}
    /\ now \in TokenEpochs
    /\ config \in Configs
    /\ req = [r \in Reqs |-> Idle]
    /\ resp = NoResp
    /\ nextUserId = 1
    /\ nextSecret = 1
    /\ gw = NoGatewayRequest
    /\ orgs = {}
    /\ areq = [c \in Callers |-> AdminIdle]
    /\ aresp = NoAdminResp

NextToken == GenerateToken \/ TokenClock \/ ValidateToken

SpecToken == InitToken /\ [][NextToken]_vars

\* the token was validated at the present instant
TokenValidated == resp # NoResp /\ resp.validated.some

\* C24: an access token generated at time t carries exp = t + ttlSeconds and
\* is rejected for expiry by validate_access_token, and not accepted by the
\* gateway's middleware, at now = exp + 1 and at every later time.
C24_ExpiredOneSecondAfterExp ==
    /\ resp # NoResp =>
          resp.token.claims.exp =
              resp.token.claims.iat + AuthConfigDefault(resp.env).token_ttl_seconds
    /\ (TokenValidated /\ now >= resp.token.claims.exp + 1) =>
          /\ resp.validated.val = Err("ExpiredSignature")
          /\ ~resp.gateway.val.some

\* C25: while now < exp, validate_access_token of the generated token
\* succeeds and returns claims whose subject, email, name, role and
\* organisation id are the user's and whose issuer is the configuration's.
C25_RoundTripIdentity ==
    (TokenValidated /\ now < resp.token.claims.exp) =>
        /\ resp.validated.val.ok
        /\ LET claims == resp.validated.val.val
               user == resp.user
           IN  /\ {"sub", "iss", "email", "name", "role", "org_id"}
                      \subseteq DOMAIN claims
               /\ claims.sub = user.id
               /\ claims.email = user.email
               /\ claims.name = user.name
               /\ claims.role = user.role
               /\ claims.org_id = user.organisation_id
               /\ claims.iss = AuthConfigDefault(resp.env).issuer


\* C26: in every reachable state of the refresh-token store no two rows
\* hold the same token hash, whatever contract operations login, register,
\* refresh and logout have applied to it, in any order.
C26_TokenHashUnique ==
    \A t1 \in tokens, t2 \in tokens :
        t1.token_hash = t2.token_hash => t1 = t2

\* an insert of a hash the table already holds, for an existing user, was
\* answered by the backend and refused
C26_Witness ==
    /\ ReturnedByPeer
    /\ resp.call.op = "token_create"
    /\ resp.up
    /\ \E u \in users : u.id = resp.call.id
    /\ \E t \in tokens : t.token_hash = resp.call.token_hash
    /\ ~resp.direct.ok
    /\ Cardinality(tokens) = 2


---------------------------------------------------------------------------
(* Rotation as a change of the store *)

\* C27: the step that answers a refresh 200 changes only the row of the
\* presented token (the row its lookup found): that row keeps its id, user id and organisation id, its
\* hash becomes the hash of the new token and its expiry the rotation time
\* plus 7 days; the number of rows is the same, and no other row and no
\* user is modified.
C27_RefreshChangesOnlyItsRow ==
    [][ \A r \in Reqs :
          (/\ req[r].pc = "refresh_update"
           /\ req'[r].pc = "idle"
           /\ Answered("refresh", 200)')
          => LET id == req[r].token_info.val.id
                 new == hash_refresh_token(req[r].refresh_token.val)
             IN  /\ users' = users
                 /\ Cardinality(tokens') = Cardinality(tokens)
                 /\ \A t \in tokens : t.id # id => t \in tokens'
                 /\ \A t \in tokens :
                       t.id = id =>
                           TokenRow(t.id, t.user_id, t.organisation_id, new,
                                    req[r].expires_at) \in tokens' ]_vars


---------------------------------------------------------------------------
(* The gateway's routes at startup (gateway_core/src/server.rs:
   run_with_routers; gateway_core/src/config.rs), SpecRoutes *)

\* config.rs: RouteConfig
RouteConfig(mode, upstream_base) ==
    [mode |-> mode, upstream_base |-> upstream_base]

RouteModes == {"Embedded", "Proxy"}

\* the base paths a configuration or a router map names
RouteNames == {"/admin", "/auth"}

\* RouteConfig::embedded() has an empty upstream; Default gives every route
\* an upstream
UpstreamBases == {"", "http://localhost:4001"}

RouteConfigs ==
    {RouteConfig(m, u) : m \in RouteModes, u \in UpstreamBases}

\* GatewayConfig.routes: a map from base paths to their configuration
RouteMaps == UNION {[S -> RouteConfigs] : S \in SUBSET RouteNames}

\* the gateway before run_with_routers, and after it has built its router
Starting(routes, routers) ==
    [pc |-> "starting", routes |-> routes, routers |-> routers]

Listening(routes, routers, nested, proxies) ==
    [pc |-> "listening", routes |-> routes, routers |-> routers,
     nested |-> nested, proxies |-> proxies]

\* run_with_routers up to the bind: a proxy is built for a route that is in
\* proxy mode or has no router, if its upstream is not empty; every router
\* of the map is nested and every proxy is routed
run_with_routers(routes, routers) ==
    LET should_proxy(route) ==
            routes[route].mode = "Proxy" \/ route \notin routers
        proxies ==
            {route \in DOMAIN routes :
                should_proxy(route) /\ routes[route].upstream_base # ""}
    IN  Listening(routes, routers, routers, proxies)

RunWithRouters ==
    /\ gw.pc = "starting"
    /\ gw' = run_with_routers(gw.routes, gw.routers)
    /\ UNCHANGED <<users, tokens, now, config, req, resp, nextUserId,
                   nextSecret, orgs, areq, aresp>>

InitRoutes ==
    /\ users = {}
    /\ tokens = {}
    /\ now = 0
    /\ config \in Configs
    /\ req = [r \in Reqs |-> Idle]
    /\ resp = NoResp
    /\ nextUserId = 1
    /\ nextSecret = 1
    /\ gw \in {Starting(routes, routers) :
                  routes \in RouteMaps, routers \in SUBSET RouteNames}
    /\ orgs = {}
    /\ areq = [c \in Callers |-> AdminIdle]
    /\ aresp = NoAdminResp

SpecRoutes == InitRoutes /\ [][RunWithRouters]_vars

\* the dispatch targets mounted on a base path
Targets(route) ==
    (IF route \in gw.nested THEN {"embedded"} ELSE {}) \cup
    (IF route \in gw.proxies THEN {"proxy"} ELSE {})

\* C28: for every configured route base path the gateway mounts exactly one
\* dispatch target: the in-process router when the route is configured
\* embedded, the proxy forwarder when it is configured proxy, for any
\* combination of route configuration and supplied routers.
C28_OneTargetPerRoute ==
    gw.pc = "listening" =>
        \A route \in DOMAIN gw.routes :
            Targets(route) = IF gw.routes[route].mode = "Embedded"
                             THEN {"embedded"} ELSE {"proxy"}


---------------------------------------------------------------------------
(* Concurrent registrations (SpecRegister): register requests only, the
   backend answering *)

RegisterStep ==
    /\ \E r \in Reqs :
          \/ \E email \in Emails, password \in Passwords :
                RegisterCreateWithin(MaxRegistered, r, email, "A", password,
                                     TRUE)
          \/ RegisterStore(r, TRUE)
    /\ UNCHANGED edge

SpecRegister == Init /\ [][RegisterStep]_vars

\* C29: after any interleaving of concurrent register requests no two
\* stored users share an email; a registration reaches its 201 only when
\* its INSERT found the email absent, no two registrations of one email are
\* on their way to 201, and a registration whose INSERT finds the email
\* stored is answered 400 and stores nothing.
C29_ConcurrentRegisterOneWinner ==
    [][ /\ \A u1 \in users', u2 \in users' :
              u1.email = u2.email => u1 = u2
        /\ \A r \in Reqs :
              /\ (req[r].pc = "idle" /\ req'[r].pc = "register_store")
                    => /\ ~\E u \in users : u.email = req'[r].payload.email
                       /\ \A r2 \in Reqs \ {r} :
                             req[r2].pc = "register_store"
                                => req[r2].payload.email
                                       # req'[r].payload.email
              /\ (req[r].pc = "register_store" /\ req'[r].pc = "idle")
                    => /\ Answered("register", 201)'
                       /\ resp'.user.val.email = req[r].payload.email
        /\ Answered("register", 400)'
              => /\ \E u \in users : u.email = resp'.payload.email
                 /\ users' = users
        /\ resp'.payload.kind = "register" => resp'.status \in {201, 400}
      ]_vars

\* a registration is answered 400 while the registration that won the same
\* email is still on its way to 201
C29_Witness ==
    /\ Answered("register", 400)
    /\ \E r \in Reqs :
          /\ req[r].pc = "register_store"
          /\ req[r].payload.email = resp.payload.email


---------------------------------------------------------------------------
(* Identity headers and what the client sent *)

\* the request the gateway is serving, without the identity headers its
\* client sent
WithoutIdentity(request) ==
    GatewayRequest(request.path,
        [h \in HeaderNames |->
            IF h \in IdentityHeaders THEN None ELSE request.headers[h]])

\* C30: the identity a handler sees is determined only by a validated
\* token: for a request that passed the middleware by its API key alone or
\* through the /auth bypass, none of x-user-id, x-user-email, x-user-name,
\* x-user-role, x-organisation-id reaches the handler; and the identity
\* headers that reach the handler are those that would reach it had the
\* client sent no identity header.
C30_IdentityOnlyFromToken ==
    Ran("HeaderInjection") =>
        /\ (BeginsWithAuth \/ ~GatewayAccepts) =>
              \A h \in IdentityHeaders : gw.headers[h] = None
        /\ LET twin == gateway_checks(gw.env, WithoutIdentity(gw.request), now)
           IN  \A h \in IdentityHeaders : gw.headers[h] = twin.headers[h]

===========================================================================
